---- MODULE Spec2Model ----
(***************************************************************************)
(* Aggregation-and-caching pipeline of the cultural event finder:          *)
(* ScraperMemory / WebSearchMemory (agents/state/macro_state.py), the data *)
(* aggregator (agents/tools/data_aggregator.py), the response generator    *)
(* (agents/tools/get_user_response.py) and the unified finder              *)
(* (agents/tools/cultural_event_finder.py).                                *)
(*                                                                         *)
(* Text values are sequences of one-character strings; None and "key not   *)
(* in the dict" are the two reserved one-element sequences Null, Missing.  *)
(***************************************************************************)
EXTENDS Integers, Sequences, FiniteSets, TLC

VARIABLES
    now,               \* wall clock (time.time() / datetime.now()), in ticks
    mem_events,        \* scraper_memory._events
    mem_last_updated,  \* scraper_memory._last_updated
    upd_ever,          \* history: update_events has been called at least once
    upd_batch,         \* history: argument of the latest update_events call
    upd_time,          \* history: clock value at the latest update_events call
    aggLog,            \* history: what the latest aggregator call did
    search_cache,      \* web_search_memory.search_cache
    last_add,          \* history: per key, the latest add_results since clear
    qcLog,             \* history: the latest WebSearchMemory operation
    fpc,               \* position of the find_cultural_events_unified call
    fcall,             \* its arguments and local variables
    fLog,              \* history: what its latest steps did
    finds,             \* number of find_cultural_events_unified calls started
    workers,           \* concurrent aggregator calls: position and locals of each
    obs,               \* history: the list the latest get_events reader saw
    cycles,            \* history: the complete accumulators of the refresh cycles
    ncycles,           \* number of refresh cycles started by concurrent calls
    expLog,            \* history: the latest get_expanded_location_terms call
    dateLog,           \* history: the latest standardize_date_format call
    promptLog          \* history: the records listed in the latest prompt

memVars == <<mem_events, mem_last_updated, upd_ever, upd_batch, upd_time, aggLog>>
qcVars == <<search_cache, last_add, qcLog>>
findVars == <<fpc, fcall, fLog, finds>>
concVars == <<workers, obs, cycles, ncycles>>
vars == <<now, memVars, qcVars, findVars, concVars, expLog, dateLog, promptLog>>

----------------------------------------------------------------------------
(* Bounds of the model *)

\* number of clock ticks explored
MaxTicks == 3
\* number of find_cultural_events_unified calls explored
MaxFinds == 2
\* number of refresh cycles the concurrent aggregator calls may start
MaxCycles == 2
\* length of the term lists the expansion collaborator answers
MaxTerms == 2
\* sizes of the batch and of the web result list a prompt is built from
MaxScraped == 77
MaxWeb == 7
\* ScraperMemory(refresh_interval_seconds=...), in ticks
RefreshInterval == 2
\* WebSearchMemory(refresh_interval_seconds=...), in ticks
SearchInterval == 2

\* the clock value at process start (any value larger than the interval)
StartTime == RefreshInterval + 1

----------------------------------------------------------------------------
(* Text helpers *)

Null == <<"<None>">>
Missing == <<"<missing>">>

\* python truthiness of an Optional[str]
Truthy(v) == v # Null /\ v # Missing /\ v # <<>>



\* str.lower()
Lower(s) ==
    LET UpperChars == <<"A","B","C","D","E","F","G","H","I","J","K","L","M",
                        "N","O","P","Q","R","S","T","U","V","W","X","Y","Z",
                        "Á","Â","Ã","Ç","É","Ê","Í","Ó","Õ","Ú">>
        LowerChars == <<"a","b","c","d","e","f","g","h","i","j","k","l","m",
                        "n","o","p","q","r","s","t","u","v","w","x","y","z",
                        "á","â","ã","ç","é","ê","í","ó","õ","ú">>
        LowerChar(c) ==
            IF \E i \in 1..Len(UpperChars) : UpperChars[i] = c
            THEN LowerChars[CHOOSE i \in 1..Len(UpperChars) : UpperChars[i] = c]
            ELSE c
    IN  [i \in 1..Len(s) |-> LowerChar(s[i])]

\* str.startswith(p)
StartsWith(s, p) == Len(s) >= Len(p) /\ SubSeq(s, 1, Len(p)) = p

\* s[n:]
DropFirst(s, n) == IF n >= Len(s) THEN <<>> ELSE SubSeq(s, n + 1, Len(s))

RECURSIVE LStrip(_)
LStrip(s) == IF s # <<>> /\ s[1] = " " THEN LStrip(Tail(s)) ELSE s

RECURSIVE RStrip(_)
RStrip(s) ==
    IF s # <<>> /\ s[Len(s)] = " " THEN RStrip(SubSeq(s, 1, Len(s) - 1)) ELSE s

\* str.strip()
Strip(s) == RStrip(LStrip(s))

\* str.replace(' ', '_')
ReplaceSpaces(s) == [i \in 1..Len(s) |-> IF s[i] = " " THEN "_" ELSE s[i]]

DigitChars == <<"0","1","2","3","4","5","6","7","8","9">>

\* str(n) for a natural number
RECURSIVE IntToStr(_)
IntToStr(n) ==
    IF n < 10 THEN <<DigitChars[n + 1]>>
    ELSE IntToStr(n \div 10) \o <<DigitChars[(n % 10) + 1]>>

\* what an f-string prints for an Optional[str]
FStr(v) == IF v = Null \/ v = Missing THEN <<"N","o","n","e">> ELSE v

\* dict.get(key) and dict.get(key, default) on a record whose absent keys
\* hold Missing
Get(item, key) == IF item[key] = Missing THEN Null ELSE item[key]
GetD(item, key, default) == IF item[key] = Missing THEN default ELSE item[key]
Has(item, key) == item[key] # Missing

----------------------------------------------------------------------------
(* Date standardisation (date_utils.py) *)

IsDigit(c) == \E i \in 1..10 : DigitChars[i] = c
DigitVal(c) == (CHOOSE i \in 1..10 : DigitChars[i] = c) - 1
AllDigits(s) == \A i \in 1..Len(s) : IsDigit(s[i])

RECURSIVE ToNat(_)
\* int(s) for a text of digits
ToNat(s) ==
    IF s = <<>> THEN 0
    ELSE 10 * ToNat(SubSeq(s, 1, Len(s) - 1)) + DigitVal(s[Len(s)])

\* sub in s
Contains(s, sub) ==
    \E i \in 1..(Len(s) - Len(sub) + 1) : SubSeq(s, i, i + Len(sub) - 1) = sub

RECURSIVE SplitOn(_, _)
\* s.split(c)
SplitOn(s, c) ==
    IF \A i \in 1..Len(s) : s[i] # c THEN <<s>>
    ELSE LET k == CHOOSE i \in 1..Len(s) : s[i] = c /\ \A j \in 1..(i - 1) : s[j] # c
         IN  <<SubSeq(s, 1, k - 1)>> \o SplitOn(DropFirst(s, k), c)

\* n printed on two digits
Pad2(n) == IF n < 10 THEN <<"0">> \o IntToStr(n) ELSE IntToStr(n)

\* month names of the pt_BR locale the application sets for LC_TIME
MonthNames ==
    << <<"j","a","n","e","i","r","o">>, <<"f","e","v","e","r","e","i","r","o">>,
       <<"m","a","r","ç","o">>, <<"a","b","r","i","l">>, <<"m","a","i","o">>,
       <<"j","u","n","h","o">>, <<"j","u","l","h","o">>, <<"a","g","o","s","t","o">>,
       <<"s","e","t","e","m","b","r","o">>, <<"o","u","t","u","b","r","o">>,
       <<"n","o","v","e","m","b","r","o">>, <<"d","e","z","e","m","b","r","o">> >>
MonthAbbrs == [i \in 1..12 |-> SubSeq(MonthNames[i], 1, 3)]

\* strptime fields: %d, %m and %Y give -1 when the text does not match
DayField(s) ==
    IF Len(s) = 2 /\ s[1] = " " /\ IsDigit(s[2]) /\ s[2] # "0" THEN DigitVal(s[2])
    ELSE IF Len(s) \in {1, 2} /\ AllDigits(s) /\ ToNat(s) \in 1..31 THEN ToNat(s)
    ELSE -1
MonthField(s) ==
    IF Len(s) \in {1, 2} /\ AllDigits(s) /\ ToNat(s) \in 1..12 THEN ToNat(s) ELSE -1
YearField(s) ==
    IF Len(s) = 4 /\ AllDigits(s) /\ ToNat(s) >= 1 THEN ToNat(s) ELSE -1
NameField(s, names) ==
    IF \E i \in 1..12 : names[i] = Lower(s)
    THEN CHOOSE i \in 1..12 : names[i] = Lower(s) ELSE -1

DaysInMonth(y, mo) ==
    IF mo = 2
    THEN IF (y % 4 = 0 /\ y % 100 # 0) \/ y % 400 = 0 THEN 29 ELSE 28
    ELSE IF mo \in {4, 6, 9, 11} THEN 30 ELSE 31

NoDate == [ok |-> FALSE, y |-> 0, mo |-> 0, d |-> 0]
MakeDate(y, mo, d) ==
    IF y >= 1 /\ mo >= 1 /\ d >= 1 /\ d <= DaysInMonth(y, mo)
    THEN [ok |-> TRUE, y |-> y, mo |-> mo, d |-> d] ELSE NoDate

\* datetime.strptime(date_str, fmt) for the four formats of formats_to_try
ParseWords(date_str, names) ==
    LET w == SelectSeq(SplitOn(date_str, " "), LAMBDA p : p # <<>>) IN
    IF Len(w) = 5 /\ date_str[1] # " " /\ date_str[Len(date_str)] # " "
         /\ Lower(w[2]) = <<"d","e">> /\ Lower(w[4]) = <<"d","e">>
    THEN MakeDate(YearField(w[5]), NameField(w[3], names), DayField(w[1]))
    ELSE NoDate
ParseSlashes(date_str) ==
    LET p == SplitOn(date_str, "/") IN
    IF Len(p) = 3 THEN MakeDate(YearField(p[3]), MonthField(p[2]), DayField(p[1]))
    ELSE NoDate
\* variant of ParseDashes that reads the fields as year, day, month
ParseDashesDayFirst(date_str) ==
    LET p == SplitOn(date_str, "-") IN
    IF Len(p) = 3 THEN MakeDate(YearField(p[1]), MonthField(p[3]), DayField(p[2]))
    ELSE NoDate
ParseDashes(date_str) ==
    LET p == SplitOn(date_str, "-") IN
    IF Len(p) = 3 THEN MakeDate(YearField(p[1]), MonthField(p[2]), DayField(p[3]))
    ELSE NoDate

\* parsed_date.strftime("%Y-%m-%d"); glibc prints %Y without padding
FormatDate(date) == IntToStr(date.y) \o <<"-">> \o Pad2(date.mo) \o <<"-">> \o Pad2(date.d)

standardize_date_format(date_str) ==
    IF ~Truthy(date_str) \/ Lower(date_str) = <<"n","/","a">> THEN Null
    ELSE IF Contains(Lower(date_str), <<" ","a"," ">>)
              \/ Contains(Lower(date_str), <<" ","a","t","é"," ">>) THEN Null
    ELSE LET tries == << ParseWords(date_str, MonthNames), ParseSlashes(date_str),
                         ParseDashes(date_str), ParseWords(date_str, MonthAbbrs) >>
             hits == { i \in 1..4 : tries[i].ok }
         IN  IF hits = {} THEN date_str
             ELSE FormatDate(tries[CHOOSE i \in hits : \A j \in hits : i <= j])


\* the date texts standardize_date_format is exercised with: numeric dates in
\* both orders, dates with a month name, and the texts of the unit test
DateDays == { <<"1">>, <<"0","5">>, <<"2","0">>, <<"3","1">>, <<"0">> }
DateMonths == { <<"0","1">>, <<"2">>, <<"0","4">>, <<"1","2">>, <<"1","3">> }
DateYears == { <<"2","0","2","3">>, <<"2","0","2","4">>, <<"0","9","9","9">>, <<"2","3">> }
DateTexts ==
    LET DateMonthWords ==
            { <<"J","a","n","e","i","r","o">>, <<"f","e","v","e","r","e","i","r","o">>,
              <<"A","B","R","I","L">>, <<"J","a","n">>, <<"J","a","n","u","a","r","y">> }
        OtherDateTexts ==
            { Null, <<>>, <<"n","/","a">>, <<"N","/","A">>, <<"N","/","a">>, <<" ","n","/","a">>,
              <<"2","0"," ","d","e"," ","J","a","n","e","i","r","o"," ","a"," ","2","5"," ","d","e"," ",
                "J","a","n","e","i","r","o"," ","d","e"," ","2","0","2","3">>,
              <<"5"," ","A"," ","9","/","0","5">>,
              <<"h","o","j","e"," ","a","t","é"," ","s","e","x","t","a">>,
              <<"d","a","t","a"," ","i","n","v","á","l","i","d","a">>,
              <<"2","0","/","0","1","/","2","0","2","3"," ">> }
    IN  { d \o <<"/">> \o m \o <<"/">> \o y : d \in DateDays, m \in DateMonths, y \in DateYears }
            \cup { y \o <<"-">> \o m \o <<"-">> \o d :
                     d \in DateDays, m \in DateMonths, y \in DateYears }
            \cup { d \o <<" ","d","e"," ">> \o w \o <<" ","d","e"," ">> \o y :
                     d \in DateDays, w \in DateMonthWords, y \in DateYears }
            \cup OtherDateTexts

NoDateLog == [called |-> FALSE, date_str |-> Null, result |-> Null, again |-> Null]

\* a call of standardize_date_format, and a second call on its result
Standardize ==
    /\ \E date_str \in DateTexts :
          LET result == standardize_date_format(date_str) IN
          dateLog' = [ called |-> TRUE, date_str |-> date_str, result |-> result,
                       again |-> standardize_date_format(result) ]
    /\ UNCHANGED <<now, memVars, qcVars, findVars, concVars, expLog, promptLog>>

----------------------------------------------------------------------------
(* Source providers and their raw records *)

FabLab == <<"F","a","b","L","a","b">>
VisiteSaoPaulo == <<"V","i","s","i","t","e"," ","S","ã","o"," ","P","a","u","l","o">>
MuseusDaWikipedia ==
    <<"M","u","s","e","u","s"," ","d","a"," ","W","i","k","i","p","é","d","i","a">>

\* scrapers_to_run, in order
scrapers_to_run == <<FabLab, VisiteSaoPaulo, MuseusDaWikipedia>>

\* a provider's outcome: it raised, or returned a list of raw records
Raise == [raised |-> TRUE, items |-> <<>>]
Returns(items) == [raised |-> FALSE, items |-> items]

EmptyItem ==
    [ title |-> Missing, location |-> Missing, description |-> Missing,
      district |-> Missing, category |-> Missing, time |-> Missing,
      source_site |-> Missing, official_event_link |-> Missing,
      id |-> Missing, bairro |-> Missing, date |-> Missing ]

rawFabA == [EmptyItem EXCEPT !.title = <<"R","o","b","o"," ","1">>,
                             !.location = <<"F","a","b","L","a","b"," ","S","é">>,
                             !.date = <<"2","0","/","0","1","/","2","0","2","3">>,
                             !.description = <<"d","A">>]
rawFabNoTitle == [EmptyItem EXCEPT !.title = Null,
                                   !.location = <<"C","E","U"," ","S","u","l">>,
                                   !.description = <<"d","N">>]
rawFabB == [EmptyItem EXCEPT !.title = <<"L","a","b">>,
                             !.date = <<"5"," ","a"," ","9","/","0","5">>,
                             !.location = <<"N","/","A">>,
                             !.description = <<"d","B">>]
rawVisiteC == [EmptyItem EXCEPT !.title = <<"F","e","i","r","a">>,
                                !.date = <<"1"," ","d","e"," ","M","a","r","ç","o"," ","d","e"," ",
                                           "2","0","2","4">>,
                                !.location = <<"M","A","S","P">>]
\* a record without title whose date and location are null
rawVisiteBare == [EmptyItem EXCEPT !.date = Null, !.location = Null]
rawMuseuM == [EmptyItem EXCEPT !.title = <<"M","u","s","e","u"," ","X">>,
                               !.district = <<"L","u","z">>,
                               !.source_site = <<"w","i","k","i">>]

\* the outcomes each provider is run with
ProviderOutcomes ==
    <<  { Raise, Returns(<<>>), Returns(<<rawFabA>>),
          Returns(<<rawFabA, rawFabNoTitle, rawFabB>>) },
        { Raise, Returns(<<>>), Returns(<<rawVisiteC>>),
          Returns(<<rawVisiteC, rawVisiteBare, rawVisiteC>>) },
        { Raise, Returns(<<rawMuseuM>>) } >>

OutcomeVectors ==
    { <<a, b, c>> : a \in ProviderOutcomes[1], b \in ProviderOutcomes[2],
                    c \in ProviderOutcomes[3] }

----------------------------------------------------------------------------
(* Normalizer (data_aggregator.py) *)

FABLAB_PREFIXES_TO_REMOVE ==
    << <<"f","a","b","l","a","b"," ">>, <<"f","a","b"," ","l","a","b"," ">>,
       <<"c","e","u"," ">>,
       <<"c","e","n","t","r","o"," ","c","u","l","t","u","r","a","l"," ">>,
       <<"b","i","b","l","i","o","t","e","c","a"," ">> >>

NotAvailable ==
    { <<"n","/","a">>,
      <<"n","/","a"," ","(","d","i","s","p","o","n","í","v","e","l"," ","n","o"," ",
        "l","i","n","k"," ","o","f","i","c","i","a","l",")">> }

\* _process_fablab_location: the first matching prefix is cut off
process_fablab_location(item) ==
    LET loc == Get(item, "location") IN
    IF Truthy(loc) /\ Lower(loc) \notin NotAvailable
    THEN LET hits == { k \in 1..Len(FABLAB_PREFIXES_TO_REMOVE) :
                         StartsWith(Lower(loc), FABLAB_PREFIXES_TO_REMOVE[k]) }
             first == CHOOSE k \in hits : \A j \in hits : k <= j
         IN  [item EXCEPT !.bairro =
                 IF hits = {} THEN loc
                 ELSE Strip(DropFirst(loc, Len(FABLAB_PREFIXES_TO_REMOVE[first])))]
    ELSE [item EXCEPT !.bairro = Null]

\* _process_museum_info
process_museum_info(item) ==
    LET d1 == [item EXCEPT
                 !.category = GetD(item, "category", <<"M","u","s","e","u">>),
                 !.time = GetD(item, "time", <<"V","a","r","i","a","d","o">>),
                 !.official_event_link =
                     GetD(item, "official_event_link", Get(item, "source_site")),
                 !.description =
                     GetD(item, "description",
                          <<"M","u","s","e","u",":"," ">> \o FStr(Get(item, "title")))]
    IN  IF Has(d1, "district")
        THEN [d1 EXCEPT !.bairro = d1.district, !.location = d1.district]
        ELSE [d1 EXCEPT !.bairro = Null]

\* _process_visite_sao_paulo_location
process_visite_sao_paulo_location(item) ==
    LET loc == Get(item, "location") IN
    IF Truthy(loc) /\ Lower(loc) \notin NotAvailable
    THEN [item EXCEPT !.bairro = loc]
    ELSE [item EXCEPT !.bairro = Null]

\* item.get('title', '').replace(' ', '_') raises AttributeError on a None title
NormalizeRaises(item) == item.title = Null

\* variant of EventId that leaves the position out
EventIdWithoutIndex(scraper_name, i, item) ==
    scraper_name \o <<"_">> \o ReplaceSpaces(GetD(item, "title", <<>>))

\* the id of the i-th (0-based) record of a provider
EventId(scraper_name, i, item) ==
    scraper_name \o <<"_">> \o IntToStr(i) \o <<"_">>
        \o ReplaceSpaces(GetD(item, "title", <<>>))

\* body of the per-item loop, for an item that does not raise
NormalizeItem(scraper_name, i, item) ==
    LET original_date_str == Get(item, "date")
        withDate == [item EXCEPT !.date = IF Truthy(original_date_str)
                                          THEN standardize_date_format(original_date_str)
                                          ELSE Null]
        withId == [withDate EXCEPT !.id = EventId(scraper_name, i, item)]
    IN
    IF scraper_name = MuseusDaWikipedia THEN process_museum_info(withId)
    ELSE IF scraper_name = FabLab THEN process_fablab_location(withId)
    ELSE process_visite_sao_paulo_location(withId)

\* the per-item loop over one provider's records from position k (1-based):
\* the records appended to all_items before the loop ends or an item raises
RECURSIVE NormalizeFrom(_, _, _)
NormalizeFrom(scraper_name, items, k) ==
    IF k > Len(items) \/ NormalizeRaises(items[k]) THEN <<>>
    ELSE <<NormalizeItem(scraper_name, k - 1, items[k])>>
             \o NormalizeFrom(scraper_name, items, k + 1)

\* one iteration of the provider loop (try/except around one provider)
ProviderItems(scraper_name, outcome) ==
    IF outcome.raised THEN <<>> ELSE NormalizeFrom(scraper_name, outcome.items, 1)

\* the provider loop from provider k on: the records collected and the
\* providers invoked
RECURSIVE RunScrapers(_, _)
RunScrapers(outcomes, k) ==
    IF k > Len(scrapers_to_run) THEN [items |-> <<>>, invoked |-> <<>>]
    ELSE LET rest == RunScrapers(outcomes, k + 1) IN
         [ items |-> ProviderItems(scrapers_to_run[k], outcomes[k]) \o rest.items,
           invoked |-> <<scrapers_to_run[k]>> \o rest.invoked ]

----------------------------------------------------------------------------
(* ScraperMemory (macro_state.py) *)

\* a variant whose comparison is not strict
should_refresh_at_interval ==
    IF mem_events = <<>> THEN TRUE
    ELSE (now - mem_last_updated) >= RefreshInterval

\* a variant that asks for a refresh on every call
should_refresh_always == TRUE

\* ScraperMemory.should_refresh
should_refresh ==
    IF mem_events = <<>> THEN TRUE
    ELSE (now - mem_last_updated) > RefreshInterval

\* a variant that stores the batch and leaves the timestamp alone
update_events_no_stamp(new_events) ==
    /\ mem_events' = new_events
    /\ UNCHANGED mem_last_updated
    /\ upd_ever' = TRUE
    /\ upd_batch' = new_events
    /\ upd_time' = now

\* a variant that appends the new batch to the stored one
update_events_merge(new_events) ==
    /\ mem_events' = mem_events \o new_events
    /\ mem_last_updated' = now
    /\ upd_ever' = TRUE
    /\ upd_batch' = new_events
    /\ upd_time' = now

\* a variant that keeps the stored batch when the new one is empty
update_events_unless_empty(new_events) ==
    IF new_events = <<>>
    THEN UNCHANGED <<mem_events, mem_last_updated, upd_ever, upd_batch, upd_time>>
    ELSE /\ mem_events' = new_events
         /\ mem_last_updated' = now
         /\ upd_ever' = TRUE
         /\ upd_batch' = new_events
         /\ upd_time' = now

\* ScraperMemory.update_events
update_events(new_events) ==
    /\ mem_events' = new_events
    /\ mem_last_updated' = now
    /\ upd_ever' = TRUE
    /\ upd_batch' = new_events
    /\ upd_time' = now

\* ScraperMemory.get_events, read after the call's writes
get_events_after == mem_events'

----------------------------------------------------------------------------
(* Aggregator (data_aggregator.py) *)

NoLog ==
    [ called |-> FALSE, at |-> 0, refresh |-> FALSE, outcomes |-> <<>>,
      invoked |-> <<>>, updates |-> <<>>, stored_before |-> <<>>,
      updated_before |-> FALSE, updated_at_before |-> 0,
      batch_before |-> <<>>, returned |-> <<>> ]

\* a variant that runs the refresh branch whatever should_refresh says
AggregatorRunNoCache(outcomes) ==
    LET run == RunScrapers(outcomes, 1) IN
    /\ update_events(run.items)
    /\ aggLog' = [ called |-> TRUE, at |-> now, refresh |-> should_refresh,
                   outcomes |-> outcomes, invoked |-> run.invoked,
                   updates |-> <<run.items>>,
                   stored_before |-> mem_events,
                   updated_before |-> upd_ever,
                   updated_at_before |-> upd_time,
                   batch_before |-> upd_batch,
                   returned |-> get_events_after ]

\* get_all_events_from_scrapers_with_memory, run with the given provider
\* outcomes (consulted only on the refresh branch)
AggregatorRun(outcomes) ==
    LET refresh == should_refresh
        run == RunScrapers(outcomes, 1)
    IN
    /\ IF refresh
       THEN update_events(run.items)
       ELSE UNCHANGED <<mem_events, mem_last_updated, upd_ever, upd_batch, upd_time>>
    /\ aggLog' = [ called |-> TRUE, at |-> now, refresh |-> refresh,
                   outcomes |-> IF refresh THEN outcomes ELSE <<>>,
                   invoked |-> IF refresh THEN run.invoked ELSE <<>>,
                   updates |-> IF refresh THEN <<run.items>> ELSE <<>>,
                   stored_before |-> mem_events,
                   updated_before |-> upd_ever,
                   updated_at_before |-> upd_time,
                   batch_before |-> upd_batch,
                   returned |-> get_events_after ]

get_all_events_from_scrapers_with_memory ==
    /\ \E outcomes \in OutcomeVectors : AggregatorRun(outcomes)
    /\ UNCHANGED <<now, qcVars, findVars, concVars, expLog, dateLog, promptLog>>

\* time passes; the clock is coarse enough that all the steps of one
\* find_cultural_events_unified call read the same time
Tick ==
    /\ fpc = "idle"
    /\ now < StartTime + MaxTicks
    /\ now' = now + 1
    /\ UNCHANGED <<memVars, qcVars, findVars, concVars, expLog, dateLog, promptLog>>


----------------------------------------------------------------------------
(* WebSearchMemory (macro_state.py) *)

\* web search results as the search service returns them
EmptyResult ==
    [ url |-> Missing, title |-> Missing, content |-> Missing,
      raw_content |-> Missing, response |-> Missing ]

webResult1 == [EmptyResult EXCEPT !.url = <<"u","1">>, !.title = <<"t","1">>,
                                  !.content = <<"c","1">>,
                                  !.raw_content = <<"r","1">>]
webResult2 == [EmptyResult EXCEPT !.url = <<"u","2">>, !.title = <<"t","2">>,
                                  !.content = <<>>,
                                  !.raw_content = <<"r","2">>]
webResult3 == [EmptyResult EXCEPT !.url = <<"u","3">>, !.title = <<"t","3">>]

SearchResultLists == { <<>>, <<webResult1>>, <<webResult1, webResult2, webResult3>> }

\* dict update: d[k] = v
DictPut(d, k, v) == [x \in DOMAIN d \cup {k} |-> IF x = k THEN v ELSE d[x]]

\* Optional[List]: None, or a list
NoneResults == [is_none |-> TRUE, data |-> <<>>]
SomeResults(data) == [is_none |-> FALSE, data |-> data]

NoQcLog == [op |-> "none", key |-> <<>>, at |-> 0, returned |-> NoneResults]

\* variant of add_results_write that stores under the lower-cased key
add_results_write_lowered_key(query_key, results) ==
    search_cache' =
        DictPut(search_cache, Lower(query_key), [timestamp |-> now, data |-> results])

\* WebSearchMemory.add_results: the write to the dict
add_results_write(query_key, results) ==
    search_cache' =
        DictPut(search_cache, query_key, [timestamp |-> now, data |-> results])

\* WebSearchMemory.add_results
add_results(query_key, results) ==
    /\ add_results_write(query_key, results)
    /\ last_add' = DictPut(last_add, query_key,
                           [at |-> now, data |-> results, expired_read |-> FALSE])
    /\ qcLog' = [op |-> "add", key |-> query_key, at |-> now,
                 returned |-> NoneResults]

\* a variant whose freshness test admits an entry exactly one interval old
EntryIsFreshInclusive(query_key) ==
    now - search_cache[query_key].timestamp <= SearchInterval

\* the freshness test of WebSearchMemory.get_results
EntryIsFresh(query_key) ==
    now - search_cache[query_key].timestamp < SearchInterval

\* WebSearchMemory.get_results
get_results(query_key) ==
    /\ IF query_key \in DOMAIN search_cache
       THEN IF EntryIsFresh(query_key)
            THEN /\ qcLog' = [op |-> "get", key |-> query_key, at |-> now,
                              returned |-> SomeResults(search_cache[query_key].data)]
                 /\ UNCHANGED search_cache
            ELSE /\ search_cache' = [x \in DOMAIN search_cache \ {query_key} |-> search_cache[x]]
                 /\ qcLog' = [op |-> "get", key |-> query_key, at |-> now,
                              returned |-> NoneResults]
       ELSE /\ qcLog' = [op |-> "get", key |-> query_key, at |-> now,
                         returned |-> NoneResults]
            /\ UNCHANGED search_cache
    /\ last_add' =
         IF query_key \in DOMAIN last_add
              /\ now - last_add[query_key].at >= SearchInterval
         THEN [last_add EXCEPT ![query_key].expired_read = TRUE]
         ELSE last_add

\* WebSearchMemory.clear_all_cache
clear_all_cache ==
    /\ search_cache' = <<>>
    /\ last_add' = <<>>
    /\ qcLog' = [op |-> "clear", key |-> <<>>, at |-> now, returned |-> NoneResults]

\* the query keys the memory is exercised with
QueryKeys == { <<"q","1">>, <<"Q","1">>, <<"q","2">> }

AddResults ==
    /\ \E k \in QueryKeys, r \in SearchResultLists : add_results(k, r)
    /\ UNCHANGED <<now, memVars, findVars, concVars, expLog, dateLog, promptLog>>

GetResults ==
    /\ \E k \in QueryKeys : get_results(k)
    /\ UNCHANGED <<now, memVars, findVars, concVars, expLog, dateLog, promptLog>>

ClearAllCache ==
    /\ clear_all_cache
    /\ UNCHANGED <<now, memVars, findVars, concVars, expLog, dateLog, promptLog>>

----------------------------------------------------------------------------
(* LocationExpander (get_bairros.py) *)

\* the term-expansion collaborator: not configured, raising, answering text
\* that is no list, or answering a list of terms
ExpanderOutcomes ==
    { [kind |-> "disabled", terms |-> <<>>],
      [kind |-> "raises", terms |-> <<>>],
      [kind |-> "malformed", terms |-> <<>>],
      [kind |-> "list",
       terms |-> << <<"B","e","l","a"," ","V","i","s","t","a">>, <<"S","É">> >>] }

\* variant of AppendNew that appends every term, present or not
RECURSIVE AppendAll(_, _)
AppendAll(final_terms, terms) ==
    IF terms = <<>> THEN final_terms
    ELSE AppendAll(Append(final_terms, Lower(Head(terms))), Tail(terms))

\* final_terms: the terms appended in order, skipping those already present
RECURSIVE AppendNew(_, _)
AppendNew(final_terms, terms) ==
    IF terms = <<>> THEN final_terms
    ELSE LET t == Lower(Head(terms)) IN
         AppendNew(IF \E i \in 1..Len(final_terms) : final_terms[i] = t
                   THEN final_terms ELSE Append(final_terms, t),
                   Tail(terms))

\* the collaborator's answer parses to a list: JSON, JSON inside a code fence
\* (_clean_llm_response) or a Python literal (ast.literal_eval)
IsTermList(llm) == llm.kind \in {"list", "fenced_list", "python_list"}

\* _parse_llm_response: [str(term).lower() for term in parsed_list], or []
parse_llm_response(llm) ==
    IF IsTermList(llm)
    THEN [i \in 1..Len(llm.terms) |-> Lower(FStr(llm.terms[i]))]
    ELSE <<>>

\* variant of expander_llm_calls without the early return on an empty query
expander_llm_calls_no_early_return(location_query, llm) ==
    IF llm.kind = "disabled" THEN 0 ELSE 1

\* the number of generate_content calls get_expanded_location_terms makes
expander_llm_calls(location_query, llm) ==
    IF ~Truthy(location_query) \/ llm.kind = "disabled" THEN 0 ELSE 1

\* get_expanded_location_terms(location_query)["expanded_terms"]
get_expanded_location_terms(location_query, llm) ==
    IF ~Truthy(location_query) THEN <<>>
    ELSE LET expanded_terms ==
                 IF llm.kind \in {"disabled", "raises"} THEN <<>>
                 ELSE parse_llm_response(llm)
         IN  AppendNew(<<Lower(location_query)>>, expanded_terms)

\* the queries and the collaborator answers the expander is exercised with
ExpandQueries ==
    { <<>>, <<"S","é">>, <<"S","É">>, <<"B","e","l","a"," ","V","i","s","t","a">>,
      <<" ">> }
ExpanderResponses ==
    LET ExpanderTerms ==
            { <<"B","e","l","a"," ","V","i","s","t","a">>, <<"s","é">>, <<"L","U","Z">>,
              <<"l","u","z">>, Null }
        TermLists == UNION { [1..n -> ExpanderTerms] : n \in 0..MaxTerms }
    IN  { [kind |-> k, terms |-> <<>>] :
                k \in {"disabled", "raises", "malformed", "json_object"} }
            \cup { [kind |-> "list", terms |-> t] : t \in TermLists }
            \cup { [kind |-> k, terms |-> << <<"L","U","Z">>, <<"S","é">> >>] :
                     k \in {"fenced_list", "python_list"} }

NoExpLog ==
    [ called |-> FALSE, location_query |-> <<>>,
      llm |-> [kind |-> "none", terms |-> <<>>], llm_calls |-> 0,
      expanded_terms |-> <<>> ]

\* a call of get_expanded_location_terms
Expand ==
    /\ \E location_query \in ExpandQueries, llm \in ExpanderResponses :
          expLog' = [ called |-> TRUE, location_query |-> location_query,
                      llm |-> llm,
                      llm_calls |-> expander_llm_calls(location_query, llm),
                      expanded_terms |->
                          get_expanded_location_terms(location_query, llm) ]
    /\ UNCHANGED <<now, memVars, qcVars, findVars, concVars, dateLog, promptLog>>

----------------------------------------------------------------------------
(* Web search (search_web.py) *)

\* TavilyClient.search: raises, or returns a response with or without the
\* "results" key
ServiceOutcomes ==
    { [kind |-> "raises", results |-> <<>>],
      [kind |-> "no_results_key", results |-> <<>>],
      [kind |-> "results", results |-> <<>>],
      [kind |-> "results", results |-> <<webResult1, webResult2, webResult3>>] }

\* variant of search_tavily that reports a failure of the service as a result
search_tavily_error_entry(query, api_key, service) ==
    IF ~Truthy(api_key) THEN [data |-> <<>>, service_calls |-> <<>>]
    ELSE [ data |-> IF service.kind = "results" THEN service.results
                    ELSE IF service.kind = "raises" THEN <<EmptyResult>>
                    ELSE <<>>,
           service_calls |-> <<query>> ]

\* search_tavily(query, api_key): the list returned and the queries sent to
\* the search service
search_tavily(query, api_key, service) ==
    IF ~Truthy(api_key) THEN [data |-> <<>>, service_calls |-> <<>>]
    ELSE [ data |-> IF service.kind = "results" THEN service.results ELSE <<>>,
           service_calls |-> <<query>> ]


----------------------------------------------------------------------------
(* Response generator (get_user_response.py) *)

RECURSIVE Join(_, _)
\* sep.join(parts)
Join(parts, sep) ==
    IF parts = <<>> THEN <<>>
    ELSE IF Len(parts) = 1 THEN parts[1]
    ELSE parts[1] \o sep \o Join(Tail(parts), sep)

\* variant of Take that keeps the whole sequence
TakeWhole(s, n) == s

\* s[:n]
Take(s, n) == IF Len(s) <= n THEN s ELSE SubSeq(s, 1, n)

Scraper == <<"s","c","r","a","p","e","r">>
Web == <<"w","e","b">>

EmptyCandidate ==
    [ id |-> Missing, name |-> Missing, location_details |-> Missing,
      type |-> Missing, date_info |-> Missing, source |-> Missing,
      details_link |-> Missing, full_description |-> Missing ]

Candidate(id, name, source) ==
    [ EmptyCandidate EXCEPT !.id = id, !.name = name, !.source = source,
        !.location_details = <<"S","P">>, !.type = <<"T">>,
        !.date_info = <<"N","/","A">>, !.details_link = <<>> ]

candFab == Candidate(EventId(FabLab, 0, rawFabA), <<"R","o","b","o">>, Scraper)
candVisite == Candidate(EventId(VisiteSaoPaulo, 0, rawVisiteC), <<"F","e","i","r","a">>, Scraper)
candWeb1 == Candidate(<<"u","1">>, <<"W","1">>, Web)
candWeb2 == Candidate(<<"u","2">>, <<"W","2">>, Web)
candWeb3 == Candidate(<<"u","3">>, <<"W","3">>, Web)
\* a web url labelled as a scraper item, and a source that is neither
candCross == Candidate(<<"u","1">>, <<"X">>, Scraper)
candOther == Candidate(<<"u","1">>, <<"O">>, <<"b","l","o","g">>)
\* a candidate lacking a required key, and one whose name is null
candNoLink == [Candidate(<<"u","3">>, <<"L">>, Web) EXCEPT !.details_link = Missing]
candNullName == Candidate(<<"u","2">>, Null, Web)

NoException == [message |-> Missing, args0 |-> Missing, str |-> <<>>]
excApi ==
    [ message |-> Missing, args0 |-> <<"E","r","r","o"," ","d","e"," ","A","P","I">>,
      str |-> <<"E","r","r","o"," ","d","e"," ","A","P","I">> ]
excBlocked ==
    [ message |-> <<"b","l","o","c","k","e","d">>, args0 |-> <<"v">>, str |-> <<"v">> ]

\* the ranking collaborator: generate_content raises, response.text raises,
\* or the response text is one of the shapes json.loads can meet
NoRank == [kind |-> "none", exc |-> NoException, feedback |-> <<>>, candidates |-> <<>>]
Ranked(candidates) == [NoRank EXCEPT !.kind = "candidates", !.candidates = candidates]
RankOutcomes ==
    { [NoRank EXCEPT !.kind = "generate_raises", !.exc = excApi],
      [NoRank EXCEPT !.kind = "text_raises", !.exc = excBlocked,
                     !.feedback = <<"S","A","F","E","T","Y">>],
      [NoRank EXCEPT !.kind = "not_json"],
      [NoRank EXCEPT !.kind = "json_not_dict"],
      [NoRank EXCEPT !.kind = "json_no_key"],
      [NoRank EXCEPT !.kind = "key_not_list"],
      Ranked(<<>>),
      Ranked(<<candFab>>),
      Ranked(<<candWeb2, candNoLink, candVisite, candCross>>),
      Ranked(<<candWeb1, candOther, candWeb3, candFab>>),
      Ranked(<<candNullName>>) }

Response(chat_summary, events_found) ==
    [raised |-> FALSE, chat_summary |-> chat_summary, events_found |-> events_found]
\* the call ends with an exception instead of a response
Raised == [raised |-> TRUE, chat_summary |-> <<>>, events_found |-> <<>>]

fallback_error_response ==
    Response(<<"Desculpe, estou com dificuldades técnicas para processar sua solicitação.">>,
             <<>>)

\* the "except Exception" branch answering the fallback response unchanged
error_response_fixed(llm) == fallback_error_response

\* the "except Exception" branch
error_response(llm) ==
    LET e == llm.exc
        error_details == IF Has(e, "message") THEN e.message
                         ELSE IF Has(e, "args0") THEN e.args0
                         ELSE e.str
        prompt_feedback_info ==
            IF llm.kind = "text_raises" /\ llm.feedback # <<>>
            THEN <<" Feedback do prompt: ">> \o llm.feedback ELSE <<>>
        \* raw_response_text is not bound when generate_content or .text raises
        raw_text_info == <<>>
    IN  [ fallback_error_response EXCEPT !.chat_summary =
            <<"Falha na comunicação com o assistente de IA: ">> \o error_details
            \o <<".">> \o prompt_feedback_info \o raw_text_info ]

QueryDetailsText(user_query_details) ==
    <<"(tipo: ">> \o FStr(user_query_details.event_type)
    \o <<", data: ">> \o FStr(user_query_details.date)
    \o <<", local: ">> \o FStr(user_query_details.location_query) \o <<")">>

FormatMismatchSummary(user_query_details) ==
    <<"O assistente de IA retornou dados em um formato inesperado. Não consegui encontrar eventos para sua busca ">>
    \o QueryDetailsText(user_query_details) \o <<".">>

NoEventsSummary(user_query_details) ==
    <<"Não encontrei eventos que correspondam exatamente à sua busca ">>
    \o QueryDetailsText(user_query_details)
    \o <<". Que tal tentar uma busca com critérios diferentes ou mais amplos?">>

\* every malformed shape taken for a format mismatch
is_format_mismatch_any_malformed(llm) ==
    llm.kind \in {"not_json", "json_not_dict", "json_no_key", "key_not_list"}

\* 'parsed_llm_json' in locals() and
\* not (isinstance(parsed_llm_json, dict) and 'event_candidates' in parsed_llm_json)
is_format_mismatch(llm) == llm.kind \in {"json_not_dict", "json_no_key"}

\* a candidate kept by the validation loop
ValidCandidate(cand_event) ==
    \A key \in {"id", "name", "location_details", "type", "date_info",
                "source", "details_link"} : Has(cand_event, key)

generate_response_from_llm(user_query_details, scraped_events, web_search_results, max_suggestions, llm) ==
    IF llm.kind \in {"generate_raises", "text_raises"} THEN error_response(llm)
    ELSE
    LET llm_event_candidates ==
            IF llm.kind = "candidates"
            THEN SelectSeq(llm.candidates, ValidCandidate) ELSE <<>>
        num_found == Len(llm_event_candidates)
        first3 == Take(llm_event_candidates, 3)
        event_names == [i \in 1..Len(first3) |-> first3[i].name]
        event_list_str == Join(event_names, <<",", " ">>)
    IN  IF llm_event_candidates = <<>>
        THEN Response(IF is_format_mismatch(llm)
                      THEN FormatMismatchSummary(user_query_details)
                      ELSE NoEventsSummary(user_query_details), <<>>)
        ELSE IF \E i \in 1..Len(event_names) : event_names[i] = Null
        THEN Raised    \* ", ".join meets a name that is no str
        ELSE IF num_found = 1
        THEN Response(<<"Encontrei 1 evento que pode te interessar: ">>
                      \o event_list_str \o <<". Veja os detalhes e o mapa!">>,
                      llm_event_candidates)
        ELSE IF num_found <= max_suggestions
        THEN Response(<<"Encontrei ">> \o IntToStr(num_found)
                      \o <<" eventos que podem te interessar, como: ">>
                      \o event_list_str \o <<". Veja os detalhes e o mapa!">>,
                      llm_event_candidates)
        ELSE Response(<<"Encontrei ">> \o IntToStr(num_found)
                      \o <<" eventos! Os primeiros são: ">> \o event_list_str
                      \o <<". Mostrando os ">> \o IntToStr(max_suggestions)
                      \o <<" mais relevantes nos detalhes e mapa. Para ver mais, você pode refinar sua busca.">>,
                      Take(llm_event_candidates, max_suggestions))


----------------------------------------------------------------------------
(* Prompt of the response generator (get_user_response.py) *)

RECURSIVE ReplaceAll(_, _, _)
\* s.replace(old, new)
ReplaceAll(s, old, new) ==
    IF Len(s) < Len(old) THEN s
    ELSE IF SubSeq(s, 1, Len(old)) = old
    THEN new \o ReplaceAll(DropFirst(s, Len(old)), old, new)
    ELSE <<Head(s)>> \o ReplaceAll(Tail(s), old, new)

\* _sanitize_string_for_prompt
sanitize_string_for_prompt(text) ==
    IF text = Null THEN <<"N","/","A">>
    ELSE LET s1 == ReplaceAll(text, <<"\\","\\">>, <<"\\","\\","\\","\\">>)
             s2 == ReplaceAll(s1, <<"\"">>, <<"\\","\\","\"">>)
             s3 == ReplaceAll(s2, <<"'">>, <<"\\","\\","'">>)
             s4 == ReplaceAll(s3, <<"\\","n">>, <<" ">>)
         IN  ReplaceAll(s4, <<"\\","r">>, <<>>)

max_scraped_to_show == 75
max_web_to_show == 5

\* variant of events_to_show that lists the whole batch
events_to_show_uncapped(scraped_events) == scraped_events

\* scraped_events[:events_to_show_count]
events_to_show(scraped_events) ==
    LET events_to_show_count ==
            IF Len(scraped_events) < max_scraped_to_show
            THEN Len(scraped_events) ELSE max_scraped_to_show
    IN  SubSeq(scraped_events, 1, events_to_show_count)

\* web_search_results[:web_to_show_count]
web_results_to_show(web_search_results) ==
    LET web_to_show_count ==
            IF Len(web_search_results) < max_web_to_show
            THEN Len(web_search_results) ELSE max_web_to_show
    IN  SubSeq(web_search_results, 1, web_to_show_count)

\* the "Item Scraper {i+1}: ID_ORIGINAL: ..." lines of the prompt, as the
\* position printed and the id and title printed
scraper_prompt_items(scraped_events) ==
    LET shown == events_to_show(scraped_events) IN
    [ i \in 1..Len(shown) |->
        [ n |-> i,
          original_id |->
              sanitize_string_for_prompt(
                  GetD(shown[i], "id", <<"scraper_item_">> \o IntToStr(i))),
          title |-> sanitize_string_for_prompt(
                        GetD(shown[i], "title", <<"N","/","A">>)) ] ]

\* the "Resultado Web {i+1}: ID_ORIGINAL: ..." lines of the prompt
web_prompt_items(web_search_results) ==
    LET shown == web_results_to_show(web_search_results) IN
    [ i \in 1..Len(shown) |->
        [ n |-> i,
          original_id |->
              sanitize_string_for_prompt(
                  GetD(shown[i], "url", <<"web_item_">> \o IntToStr(i))),
          title |-> sanitize_string_for_prompt(
                        GetD(shown[i], "title", <<"N","/","A">>)) ] ]

\* a batch of n records as the aggregator publishes it, and m web results
ScrapedBatch(n) ==
    LET rawQuoted == [EmptyItem EXCEPT !.title = <<"O"," ","'","X","'">>]
    IN  NormalizeFrom(FabLab, [i \in 1..n |-> rawQuoted], 1)
WebResults(m) ==
    [ i \in 1..m |-> [EmptyResult EXCEPT !.url = <<"u">> \o IntToStr(i),
                                         !.title = <<"t">>] ]

NoPromptLog ==
    [ called |-> FALSE, scraped_events |-> <<>>, web_search_results |-> <<>>,
      scraper_items |-> <<>>, web_items |-> <<>> ]

\* section 2 and 3 of the prompt are built, once, for a batch and a web
\* result list
BuildPrompt ==
    /\ ~promptLog.called
    /\ \E n \in 0..MaxScraped, m \in 0..MaxWeb :
          LET scraped_events == ScrapedBatch(n)
              web_search_results == WebResults(m)
          IN  promptLog' =
                  [ called |-> TRUE, scraped_events |-> scraped_events,
                    web_search_results |-> web_search_results,
                    scraper_items |-> scraper_prompt_items(scraped_events),
                    web_items |-> web_prompt_items(web_search_results) ]
    /\ UNCHANGED <<now, memVars, qcVars, findVars, concVars, expLog, dateLog>>

----------------------------------------------------------------------------
(* Unified finder (cultural_event_finder.py) *)

\* the arguments and the environment the finder is exercised with
Arguments(event_type, date, location_query) ==
    [event_type |-> event_type, date |-> date, location_query |-> location_query]
FinderArguments ==
    { Arguments(Null, Null, Null),
      Arguments(<<"s","h","o","w">>, Null, Null),
      Arguments(<<>>, <<"h","o","j","e">>, Null),
      Arguments(Null, Null, <<"S","é">>),
      Arguments(<<"s","h","o","w">>, <<"h","o","j","e">>, <<"S","é">>) }
ApiKeys == { Null, <<"k">> }
\* the provider outcomes the finder's aggregator call is exercised with
FinderOutcomeVectors ==
    { <<Raise, Raise, Raise>>,
      <<Returns(<<rawFabA>>), Raise, Returns(<<rawMuseuM>>)>>,
      <<Returns(<<rawFabA, rawFabNoTitle, rawFabB>>), Returns(<<rawVisiteC>>),
        Returns(<<rawMuseuM>>)>> }

\* max_suggestions passed to generate_response_from_llm
FinderMaxSuggestions == 3

NoDescription == <<"Descrição completa não encontrada.">>

NoResponse == Response(<<>>, <<>>)

NoCall ==
    [ expansion |-> "none", event_type |-> Null, date |-> Null, location_query |-> Null,
      expanded_locations |-> <<>>, all_event_data |-> <<>>,
      web_search_data |-> <<>>, final_structured_response |-> NoResponse ]

NoService == [kind |-> "none", results |-> <<>>]

NoFindLog ==
    [ at |-> 0, searched |-> FALSE, tavily_api_key |-> Null, web_query |-> <<>>, service |-> NoService,
      service_calls |-> <<>>, adds |-> <<>>, cache_before |-> <<>>,
      llm |-> NoRank, contextual_location |-> Null, ranked |-> NoResponse ]

\* the outcomes of the finder's call of get_expanded_location_terms: those of
\* the expander, the call raising, and an answer without a usable term list
FinderExpanderOutcomes ==
    ExpanderOutcomes
    \cup { [kind |-> k, terms |-> <<>>] : k \in {"call_raises", "no_term_list"} }

\* what the finder sees of its expansion call: not made, raised, answered
\* without a usable term list, or answered terms
expansion_outcome(location_query, llm) ==
    IF ~Truthy(location_query) THEN "none"
    ELSE IF llm.kind \in {"call_raises", "no_term_list"} THEN llm.kind
    ELSE "terms"

\* step 1: expanded_locations
expand_locations(location_query, llm) ==
    IF ~Truthy(location_query) THEN <<>>
    ELSE IF llm.kind \in {"call_raises", "no_term_list"} THEN <<>>
    ELSE LET expanded_locations_list == get_expanded_location_terms(location_query, llm)
             kept == SelectSeq(expanded_locations_list, Truthy)
         IN  [i \in 1..Len(kept) |-> Lower(kept[i])]

\* the composite web query
WebQuery(event_type, location_query, date) ==
    LET web_query_parts ==
            (IF Truthy(event_type) THEN <<event_type>> ELSE <<>>)
            \o (IF Truthy(location_query) THEN << <<"e","m"," ">> \o location_query >>
                ELSE <<>>)
            \o (IF Truthy(date) THEN << <<"e","m"," ">> \o date >> ELSE <<>>)
    IN  <<"Eventos culturais ou atividades ">> \o Join(web_query_parts, <<" ">>)
        \o <<" em São Paulo">>

\* a variant that stores whatever list the search returned
cache_adds_any_list(web_query, web_search_data) ==
    << [key |-> web_query, data |-> web_search_data] >>

\* the add_results calls made for the list the search returned
cache_adds(web_query, web_search_data) ==
    IF web_search_data # <<>>
    THEN << [key |-> web_query, data |-> web_search_data] >>
    ELSE <<>>

\* variant of web_search_step that searches whenever a key is configured
web_search_step_any_request(event_type, date, location_query, tavily_api_key, service) ==
    IF Truthy(tavily_api_key)
    THEN LET web_query == WebQuery(event_type, location_query, date)
             st == search_tavily(web_query, tavily_api_key, service)
         IN  [ searched |-> TRUE, web_query |-> web_query,
               web_search_data |-> st.data,
               service_calls |-> st.service_calls,
               adds |-> cache_adds(web_query, st.data) ]
    ELSE [ searched |-> FALSE, web_query |-> <<>>, web_search_data |-> <<>>,
           service_calls |-> <<>>, adds |-> <<>> ]

\* step 3: the web search, for the key read from the environment and the
\* outcome of the search service
web_search_step(event_type, date, location_query, tavily_api_key, service) ==
    IF Truthy(tavily_api_key)
         /\ (Truthy(location_query) \/ Truthy(event_type) \/ Truthy(date))
    THEN LET web_query == WebQuery(event_type, location_query, date)
             st == search_tavily(web_query, tavily_api_key, service)
         IN  [ searched |-> TRUE, web_query |-> web_query,
               web_search_data |-> st.data,
               service_calls |-> st.service_calls,
               adds |-> cache_adds(web_query, st.data) ]
    ELSE [ searched |-> FALSE, web_query |-> <<>>, web_search_data |-> <<>>,
           service_calls |-> <<>>, adds |-> <<>> ]

\* {item.get(key): item for item in items if item.get(key)}.get(original_id):
\* the positions of the items stored under original_id (the last one wins)
MapPositions(items, key, original_id) ==
    { i \in 1..Len(items) : Truthy(Get(items[i], key)) /\ items[i][key] = original_id }

Last(S) == CHOOSE i \in S : \A j \in S : j <= i

\* a variant that looks every candidate up among the web results
full_description_web_only(llm_event, all_event_data, web_search_data) ==
    LET original_id == Get(llm_event, "id")
        found == MapPositions(web_search_data, "url", original_id)
    IN  IF ~Truthy(original_id) \/ found = {} THEN NoDescription
        ELSE LET original_item == web_search_data[Last(found)] IN
             IF Truthy(Get(original_item, "content")) THEN original_item.content
             ELSE IF Truthy(Get(original_item, "raw_content"))
             THEN original_item.raw_content
             ELSE GetD(original_item, "response", <<"N/A Web">>)

\* the text attached to one candidate
full_description(llm_event, all_event_data, web_search_data) ==
    LET original_id == Get(llm_event, "id")
        source == Get(llm_event, "source")
    IN  IF Truthy(original_id) /\ source = Scraper
        THEN LET found == MapPositions(all_event_data, "id", original_id) IN
             IF found = {} THEN NoDescription
             ELSE GetD(all_event_data[Last(found)], "description",
                       <<"N/A Scraper">>)
        ELSE IF Truthy(original_id) /\ source = Web
        THEN LET found == MapPositions(web_search_data, "url", original_id) IN
             IF found = {} THEN NoDescription
             ELSE LET original_item == web_search_data[Last(found)] IN
                  IF Truthy(Get(original_item, "content")) THEN original_item.content
                  ELSE IF Truthy(Get(original_item, "raw_content"))
                  THEN original_item.raw_content
                  ELSE GetD(original_item, "response", <<"N/A Web">>)
        ELSE NoDescription

\* step 5: reconciliation of the ranked candidates with their sources
attach_descriptions(response, all_event_data, web_search_data) ==
    IF response.raised THEN response
    ELSE [ response EXCEPT !.events_found =
             [ i \in 1..Len(response.events_found) |->
                 [ response.events_found[i] EXCEPT !.full_description =
                     full_description(response.events_found[i],
                                      all_event_data, web_search_data) ] ] ]

\* variant of contextual_location that always joins the expanded terms
contextual_location_always_joined(expanded_locations, location_query) ==
    Join(expanded_locations, <<",", " ">>)

\* ", ".join(expanded_locations) if expanded_locations else location_query
contextual_location(expanded_locations, location_query) ==
    IF expanded_locations # <<>>
    THEN Join(expanded_locations, <<",", " ">>)
    ELSE location_query

\* steps 0-1: the call starts and expands the location
FindStart ==
    /\ fpc = "idle"
    /\ finds < MaxFinds
    /\ \E args \in FinderArguments, llm \in FinderExpanderOutcomes :
          fcall' = [ NoCall EXCEPT !.event_type = args.event_type,
                       !.expansion = expansion_outcome(args.location_query, llm),
                       !.date = args.date,
                       !.location_query = args.location_query,
                       !.expanded_locations =
                           expand_locations(args.location_query, llm) ]
    /\ fpc' = "expanded"
    /\ finds' = finds + 1
    /\ fLog' = NoFindLog
    /\ UNCHANGED <<now, memVars, qcVars, concVars, expLog, dateLog, promptLog>>

\* step 2: all_event_data = get_all_events_from_scrapers_with_memory()
FindAggregate ==
    /\ fpc = "expanded"
    /\ \E outcomes \in FinderOutcomeVectors : AggregatorRun(outcomes)
    /\ fcall' = [fcall EXCEPT !.all_event_data = get_events_after]
    /\ fpc' = "aggregated"
    /\ UNCHANGED <<now, qcVars, fLog, finds, concVars, expLog, dateLog, promptLog>>

\* step 3: the web search and the write to the WebSearchMemory
FindSearch ==
    /\ fpc = "aggregated"
    /\ \E tavily_api_key \in ApiKeys, service \in ServiceOutcomes :
          LET step == web_search_step(fcall.event_type, fcall.date,
                                      fcall.location_query, tavily_api_key, service)
          IN  /\ IF step.adds = <<>> THEN UNCHANGED qcVars
                 ELSE add_results(step.adds[1].key, step.adds[1].data)
              /\ fcall' = [fcall EXCEPT !.web_search_data = step.web_search_data]
              /\ fLog' = [ fLog EXCEPT !.at = now, !.searched = step.searched,
                             !.tavily_api_key = tavily_api_key,
                             !.web_query = step.web_query,
                             !.service = IF step.service_calls = <<>>
                                         THEN NoService ELSE service,
                             !.service_calls = step.service_calls,
                             !.adds = step.adds,
                             !.cache_before = search_cache ]
    /\ fpc' = "searched"
    /\ UNCHANGED <<now, memVars, finds, concVars, expLog, dateLog, promptLog>>

\* steps 4-5: final_structured_response = generate_response_from_llm(...),
\* then the descriptions are attached; the call is about to return and only
\* its arguments and its response are kept
FindRespond ==
    /\ fpc = "searched"
    /\ \E llm \in RankOutcomes :
          LET user_query_details ==
                  [ event_type |-> fcall.event_type, date |-> fcall.date,
                    location_query |-> fcall.location_query,
                    expanded_location_terms |->
                        contextual_location(fcall.expanded_locations,
                                            fcall.location_query) ]
              response == generate_response_from_llm(
                              user_query_details, fcall.all_event_data,
                              fcall.web_search_data, FinderMaxSuggestions, llm)
          IN  /\ fcall' = [ NoCall EXCEPT !.event_type = fcall.event_type,
                             !.date = fcall.date,
                             !.location_query = fcall.location_query,
                             !.final_structured_response =
                                 attach_descriptions(response, fcall.all_event_data,
                                                     fcall.web_search_data) ]
              /\ fLog' = [ NoFindLog EXCEPT !.at = now, !.llm = llm,
                             !.contextual_location =
                                 user_query_details.expanded_location_terms,
                             !.ranked = response ]
    /\ fpc' = "done"
    /\ UNCHANGED <<now, memVars, qcVars, finds, concVars, expLog, dateLog, promptLog>>

\* the call returns final_structured_response to its caller; the history of
\* the call is dropped
FindReturn ==
    /\ fpc = "done"
    /\ fpc' = "idle"
    /\ fcall' = NoCall
    /\ fLog' = NoFindLog
    /\ aggLog' = NoLog
    /\ qcLog' = NoQcLog
    /\ UNCHANGED <<now, mem_events, mem_last_updated, upd_ever, upd_batch, upd_time,
                   search_cache, last_add, finds, concVars, expLog, dateLog, promptLog>>


----------------------------------------------------------------------------
(* Concurrent aggregator calls and readers (data_aggregator.py, macro_state.py) *)

\* the threads that call get_all_events_from_scrapers_with_memory
Workers == {"w1", "w2"}

\* a call's position and locals; invoked and updates record the providers it
\* has invoked and the update_events calls it has made
IdleWorker ==
    [ pc |-> "idle", all_items |-> <<>>, k |-> 0, returned |-> <<>>,
      invoked |-> <<>>, updates |-> 0 ]

\* a variant that ends the provider loop after the first provider
WorkerFetchFirstOnly(w) ==
    /\ workers[w].pc = "fetch"
    /\ \E outcome \in ProviderOutcomes[workers[w].k] :
          LET k == workers[w].k
              all_items == workers[w].all_items
                               \o ProviderItems(scrapers_to_run[k], outcome)
          IN  /\ workers' = [workers EXCEPT ![w].all_items = all_items,
                                            ![w].k = 0,
                                            ![w].invoked = Append(@, scrapers_to_run[k]),
                                            ![w].pc = "set_events"]
              /\ cycles' = cycles \cup {all_items}
    /\ UNCHANGED <<now, memVars, qcVars, findVars, expLog, dateLog, promptLog, obs, ncycles>>

\* a variant that publishes the accumulator to the memory after each provider
WorkerFetchPublishing(w) ==
    /\ workers[w].pc = "fetch"
    /\ \E outcome \in ProviderOutcomes[workers[w].k] :
          LET k == workers[w].k
              all_items == workers[w].all_items
                               \o ProviderItems(scrapers_to_run[k], outcome)
              last == k = Len(scrapers_to_run)
          IN  /\ workers' = [workers EXCEPT ![w].all_items = all_items,
                                            ![w].k = IF last THEN 0 ELSE k + 1,
                                            ![w].invoked = Append(@, scrapers_to_run[k]),
                                            ![w].pc = IF last THEN "set_events"
                                                      ELSE "fetch"]
              /\ cycles' = IF last THEN cycles \cup {all_items} ELSE cycles
              /\ mem_events' = all_items
    /\ UNCHANGED <<now, mem_last_updated, upd_ever, upd_batch, upd_time, aggLog,
                   qcVars, findVars, expLog, dateLog, promptLog, obs, ncycles>>

\* a variant that skips the refresh while another call is collecting
WorkerCheckGuarded(w) ==
    /\ workers[w].pc = "idle"
    /\ IF should_refresh
            /\ \A v \in Workers : workers[v].pc \notin {"fetch", "set_events", "set_stamp"}
       THEN /\ ncycles < MaxCycles
            /\ workers' = [workers EXCEPT ![w] = [IdleWorker EXCEPT !.pc = "fetch",
                                                                    !.k = 1]]
            /\ ncycles' = ncycles + 1
       ELSE /\ workers' = [workers EXCEPT ![w] = [IdleWorker EXCEPT !.pc = "return"]]
            /\ UNCHANGED ncycles
    /\ UNCHANGED <<now, memVars, qcVars, findVars, expLog, dateLog, promptLog, obs, cycles>>

\* line 119: the call starts and evaluates scraper_memory.should_refresh()
WorkerCheck(w) ==
    /\ workers[w].pc = "idle"
    /\ IF should_refresh
       THEN /\ ncycles < MaxCycles
            /\ workers' = [workers EXCEPT ![w] = [IdleWorker EXCEPT !.pc = "fetch",
                                                                    !.k = 1]]
            /\ ncycles' = ncycles + 1
       ELSE /\ workers' = [workers EXCEPT ![w] = [IdleWorker EXCEPT !.pc = "return"]]
            /\ UNCHANGED ncycles
    /\ UNCHANGED <<now, memVars, qcVars, findVars, expLog, dateLog, promptLog, obs, cycles>>

\* lines 131-164: one iteration of the provider loop appends to the call's
\* own all_items; after the last provider the accumulator is complete
WorkerFetch(w) ==
    /\ workers[w].pc = "fetch"
    /\ \E outcome \in ProviderOutcomes[workers[w].k] :
          LET k == workers[w].k
              all_items == workers[w].all_items
                               \o ProviderItems(scrapers_to_run[k], outcome)
              last == k = Len(scrapers_to_run)
          IN  /\ workers' = [workers EXCEPT ![w].all_items = all_items,
                                            ![w].k = IF last THEN 0 ELSE k + 1,
                                            ![w].invoked = Append(@, scrapers_to_run[k]),
                                            ![w].pc = IF last THEN "set_events"
                                                      ELSE "fetch"]
              /\ cycles' = IF last THEN cycles \cup {all_items} ELSE cycles
    /\ UNCHANGED <<now, memVars, qcVars, findVars, expLog, dateLog, promptLog, obs, ncycles>>

\* update_events, first statement: self._events = new_events
WorkerSetEvents(w) ==
    /\ workers[w].pc = "set_events"
    /\ mem_events' = workers[w].all_items
    /\ upd_ever' = TRUE
    /\ upd_batch' = workers[w].all_items
    /\ workers' = [workers EXCEPT ![w].pc = "set_stamp", ![w].updates = @ + 1]
    /\ UNCHANGED <<now, mem_last_updated, upd_time, aggLog, qcVars, findVars, expLog, dateLog, promptLog,
                   obs, cycles, ncycles>>

\* update_events, second statement: self._last_updated = time.time()
WorkerSetStamp(w) ==
    /\ workers[w].pc = "set_stamp"
    /\ mem_last_updated' = now
    /\ upd_time' = now
    /\ workers' = [workers EXCEPT ![w].pc = "return"]
    /\ UNCHANGED <<now, mem_events, upd_ever, upd_batch, aggLog, qcVars, findVars, expLog, dateLog, promptLog,
                   obs, cycles, ncycles>>

\* line 172: return scraper_memory.get_events()
WorkerReturn(w) ==
    /\ workers[w].pc = "return"
    /\ workers' = [workers EXCEPT ![w] = [IdleWorker EXCEPT !.returned = mem_events]]
    /\ UNCHANGED <<now, memVars, qcVars, findVars, expLog, dateLog, promptLog, obs, cycles, ncycles>>

\* another thread reads scraper_memory.get_events()
ReadEvents ==
    /\ obs' = mem_events
    /\ UNCHANGED <<now, memVars, qcVars, findVars, expLog, dateLog, promptLog, workers, cycles, ncycles>>


Init ==
    /\ now = StartTime
    /\ mem_events = <<>>
    /\ mem_last_updated = 0
    /\ upd_ever = FALSE
    /\ upd_batch = <<>>
    /\ upd_time = 0
    /\ aggLog = NoLog
    /\ search_cache = <<>>
    /\ last_add = <<>>
    /\ qcLog = NoQcLog
    /\ fpc = "idle"
    /\ fcall = NoCall
    /\ fLog = NoFindLog
    /\ finds = 0
    /\ workers = [w \in Workers |-> IdleWorker]
    /\ obs = <<>>
    /\ cycles = {}
    /\ ncycles = 0
    /\ expLog = NoExpLog
    /\ dateLog = NoDateLog
    /\ promptLog = NoPromptLog

NextAgg == Tick \/ get_all_events_from_scrapers_with_memory

SpecAgg == Init /\ [][NextAgg]_vars

NextQC == Tick \/ AddResults \/ GetResults \/ ClearAllCache

SpecQC == Init /\ [][NextQC]_vars

NextFinder ==
    Tick \/ FindStart \/ FindAggregate \/ FindSearch \/ FindRespond
         \/ FindReturn

SpecFinder == Init /\ [][NextFinder]_vars

NextConc ==
    \/ Tick
    \/ ReadEvents
    \/ \E w \in Workers :
          \/ WorkerCheck(w) \/ WorkerFetch(w) \/ WorkerSetEvents(w)
          \/ WorkerSetStamp(w) \/ WorkerReturn(w)

SpecConc == Init /\ [][NextConc]_vars

SpecExpand == Init /\ [][Expand]_vars

SpecDate == Init /\ [][Standardize]_vars

SpecPrompt == Init /\ [][BuildPrompt]_vars

----------------------------------------------------------------------------
(* Aggregator and ScraperMemory: properties *)

\* C1  Cache hit: a call of the aggregator that finds should_refresh() false
\* invokes no provider, does not call update_events, and returns exactly the
\* batch that was and still is stored in the memory.
C1_CacheHit ==
    (aggLog.called /\ ~aggLog.refresh) =>
        /\ aggLog.invoked = <<>>
        /\ aggLog.updates = <<>>
        /\ aggLog.returned = aggLog.stored_before
        /\ mem_events = aggLog.stored_before
        /\ upd_time = aggLog.updated_at_before

C1_Witness ==
    /\ aggLog.called /\ ~aggLog.refresh
    /\ aggLog.returned # <<>>
    /\ aggLog.at > aggLog.updated_at_before

\* the batch C2 expects of a refresh: every record of every provider that
\* did not raise, normalized, in provider order
RECURSIVE ClaimedBatch(_, _)
ClaimedBatch(outcomes, k) ==
    IF k > Len(scrapers_to_run) THEN <<>>
    ELSE (IF outcomes[k].raised THEN <<>>
          ELSE [i \in 1..Len(outcomes[k].items) |->
                   NormalizeItem(scrapers_to_run[k], i - 1, outcomes[k].items[i])])
         \o ClaimedBatch(outcomes, k + 1)

\* C2  Failure isolation: in a refresh cycle every provider is invoked
\* whichever providers raise, and the one batch passed to update_events is
\* exactly the normalized records of all providers that did not raise, in
\* provider order.
C2_FailureIsolation ==
    (aggLog.called /\ aggLog.refresh) =>
        /\ aggLog.invoked = scrapers_to_run
        /\ aggLog.updates = <<ClaimedBatch(aggLog.outcomes, 1)>>

\* C3 as stated: should_refresh() is true exactly when no update was ever
\* performed or more than the interval has elapsed since the last one.
C3_FreshnessAsStated ==
    should_refresh = (~upd_ever \/ (now - upd_time) > RefreshInterval)

\* C3  Freshness: should_refresh() is true exactly when the batch stored by
\* the latest update is empty (or there was no update), or more than the
\* interval has elapsed since the latest update.
C3_Freshness ==
    should_refresh =
        (~upd_ever \/ upd_batch = <<>> \/ (now - upd_time) > RefreshInterval)

C3_Witness ==
    /\ upd_ever /\ upd_batch = <<>>
    /\ (now - upd_time) <= RefreshInterval
    /\ should_refresh

C3_WitnessFresh ==
    upd_ever /\ upd_batch # <<>> /\ now > upd_time /\ ~should_refresh

\* C4 as stated: once a refresh has completed at time T, whatever it
\* collected, no aggregator call at a time t with t - T <= interval invokes
\* a provider.
C4_OneRefreshAsStated ==
    (aggLog.called /\ aggLog.updated_before
        /\ aggLog.at - aggLog.updated_at_before <= RefreshInterval)
    => aggLog.invoked = <<>>

\* C4  At most one refresh per interval: once a refresh has completed at
\* time T with a non-empty batch, no aggregator call at a time t with
\* t - T <= interval invokes a provider.
C4_OneRefresh ==
    (aggLog.called /\ aggLog.updated_before /\ aggLog.batch_before # <<>>
        /\ aggLog.at - aggLog.updated_at_before <= RefreshInterval)
    => aggLog.invoked = <<>>

C4_Witness ==
    /\ aggLog.called /\ aggLog.updated_before /\ aggLog.batch_before # <<>>
    /\ aggLog.at - aggLog.updated_at_before = RefreshInterval
    /\ aggLog.invoked = <<>>

----------------------------------------------------------------------------
(* WebSearchMemory: properties *)

\* C5  Reading the query cache: a get(k) after add(k, v) made while less
\* than the interval has elapsed returns v and keeps the entry; a get(k)
\* made once the interval has elapsed returns None and removes k.  An entry
\* leaves the cache only by such a read of its own key: an added key is
\* absent exactly when it was read at or after its expiry.
C5_QueryCacheRead ==
    /\ (qcLog.op = "get" /\ qcLog.key \in DOMAIN last_add) =>
          LET a == last_add[qcLog.key] IN
          IF qcLog.at - a.at < SearchInterval
          THEN /\ qcLog.returned = SomeResults(a.data)
               /\ qcLog.key \in DOMAIN search_cache
          ELSE /\ qcLog.returned = NoneResults
               /\ qcLog.key \notin DOMAIN search_cache
    /\ \A k \in DOMAIN last_add :
          (k \in DOMAIN search_cache) <=> ~last_add[k].expired_read

C5_Witness ==
    /\ qcLog.op = "get" /\ qcLog.key \in DOMAIN last_add
    /\ qcLog.at - last_add[qcLog.key].at = SearchInterval
    /\ qcLog.returned = NoneResults
    /\ \E k \in DOMAIN search_cache :
          k # qcLog.key /\ now - search_cache[k].timestamp > SearchInterval

----------------------------------------------------------------------------
(* Unified finder: properties *)

\* C6: when the WebSearchMemory holds a non-expired entry for the composite
\* query of a call, the web search step uses the cached payload as its
\* web-search results and does not call the search service.
C6_CachedSearchUsed ==
    (fpc = "searched" /\ fLog.searched
        /\ fLog.web_query \in DOMAIN fLog.cache_before
        /\ fLog.at - fLog.cache_before[fLog.web_query].timestamp < SearchInterval)
    => /\ fLog.service_calls = <<>>
       /\ fcall.web_search_data = fLog.cache_before[fLog.web_query].data

\* C7 as stated: whenever the search service returns a list, the empty list
\* included, that list is stored under the exact query sent to the service,
\* with exactly one add.
C7_StoreAsStated ==
    (fpc = "searched" /\ fLog.service_calls # <<>> /\ fLog.service.kind = "results")
    => /\ fLog.adds = << [key |-> fLog.service_calls[1],
                           data |-> fLog.service.results] >>
       /\ fLog.service_calls[1] \in DOMAIN search_cache
       /\ search_cache[fLog.service_calls[1]].data = fLog.service.results

\* C7: whenever the search service returns a non-empty list, that list is
\* stored in the WebSearchMemory under the exact query sent to the service,
\* with exactly one add; an empty list, or a failed search, stores nothing.
C7_Store ==
    (fpc = "searched" /\ fLog.service_calls # <<>>) =>
        IF fLog.service.kind = "results" /\ fLog.service.results # <<>>
        THEN /\ fLog.adds = << [key |-> fLog.service_calls[1],
                                data |-> fLog.service.results] >>
             /\ fLog.service_calls[1] \in DOMAIN search_cache
             /\ search_cache[fLog.service_calls[1]] =
                    [timestamp |-> fLog.at, data |-> fLog.service.results]
        ELSE /\ fLog.adds = <<>>
             /\ search_cache = fLog.cache_before

C7_Witness ==
    /\ fpc = "searched"
    /\ Len(fLog.service_calls) = 1
    /\ Len(fLog.adds) = 1
    /\ fLog.web_query \in DOMAIN fLog.cache_before
    /\ search_cache[fLog.web_query].data = <<webResult1, webResult2, webResult3>>
    /\ search_cache[fLog.web_query].timestamp > fLog.cache_before[fLog.web_query].timestamp

SummaryForExcApi ==
    error_response([NoRank EXCEPT !.kind = "generate_raises", !.exc = excApi]).chat_summary

\* C9 as stated: when the ranking call raises, events_found is empty and
\* chat_summary is one fixed text, the same whichever exception was raised.
C9_FixedApologyAsStated ==
    (fpc = "done" /\ fLog.llm.kind \in {"generate_raises", "text_raises"})
    => /\ fcall.final_structured_response.events_found = <<>>
       /\ fcall.final_structured_response.chat_summary = SummaryForExcApi

\* C9: when the ranking call raises, the finder does not raise, events_found
\* is empty and chat_summary is the communication-failure text followed by
\* the details of the exception and a full stop.
C9_FailureSummary ==
    (fpc = "done" /\ fLog.llm.kind \in {"generate_raises", "text_raises"}) =>
        LET e == fLog.llm.exc
            details == IF e.message # Missing THEN e.message
                       ELSE IF e.args0 # Missing THEN e.args0 ELSE e.str
            summary == fcall.final_structured_response.chat_summary
        IN  /\ ~fcall.final_structured_response.raised
            /\ fcall.final_structured_response.events_found = <<>>
            /\ Len(summary) >= Len(details) + 2
            /\ summary[1] = "Falha na comunicação com o assistente de IA: "
            /\ SubSeq(summary, 2, Len(details) + 1) = details
            /\ summary[Len(details) + 2] = "."

C9_Witness ==
    /\ fpc = "done"
    /\ fLog.llm.kind = "text_raises"
    /\ fcall.final_structured_response.events_found = <<>>
    /\ fcall.final_structured_response.chat_summary # SummaryForExcApi
    /\ fcall.final_structured_response.chat_summary
           # fallback_error_response.chat_summary

\* C10 as stated: a response that is not JSON, lacks the candidate-list key
\* or holds a candidate-list value that is no list gives an empty candidate
\* list, no exception and the format-mismatch summary.
C10_MalformedAsStated ==
    (fpc = "done" /\ fLog.llm.kind \in {"not_json", "json_no_key", "key_not_list"})
    => /\ ~fcall.final_structured_response.raised
       /\ fcall.final_structured_response.events_found = <<>>
       /\ fcall.final_structured_response.chat_summary =
              FormatMismatchSummary(fcall)

\* C10: a malformed response gives an empty candidate list and no exception;
\* the summary is the format-mismatch text when the candidate-list key is
\* lacking, and the ordinary no-events text when the response is not JSON or
\* the candidate-list value is no list.
C10_Malformed ==
    (fpc = "done" /\ fLog.llm.kind \in {"not_json", "json_no_key", "key_not_list"})
    => /\ ~fcall.final_structured_response.raised
       /\ fcall.final_structured_response.events_found = <<>>
       /\ fcall.final_structured_response.chat_summary =
              IF fLog.llm.kind = "json_no_key"
              THEN FormatMismatchSummary(fcall)
              ELSE NoEventsSummary(fcall)

C10_Witness ==
    /\ fpc = "done"
    /\ fLog.llm.kind = "not_json"
    /\ fcall.location_query # Null
    /\ fcall.final_structured_response.events_found = <<>>
    /\ fcall.final_structured_response.chat_summary = NoEventsSummary(fcall)


\* C11: whatever the source providers, the term expansion, the search service
\* and the ranking collaborator do, find_cultural_events_unified ends by
\* returning a chat_summary and an events_found list; it never raises to its
\* caller.
C11_NeverRaises ==
    fpc = "done" => ~fcall.final_structured_response.raised


----------------------------------------------------------------------------
(* ScraperMemory: properties *)

\* C12: update_events is a full replacement: once update_events(B) has run,
\* get_events returns exactly B, empty or not, whatever was stored before,
\* and it keeps returning B until the next update; before any update it
\* returns the empty list.
C12_FullReplacement ==
    /\ mem_events = IF upd_ever THEN upd_batch ELSE <<>>
    /\ aggLog.called =>
          /\ aggLog.returned = mem_events
          /\ aggLog.refresh => aggLog.returned = aggLog.updates[1]
          /\ ~aggLog.refresh => aggLog.returned = aggLog.stored_before

C12_Witness ==
    /\ aggLog.called /\ aggLog.refresh
    /\ aggLog.stored_before # <<>>
    /\ mem_events # <<>>
    /\ Len(mem_events) < Len(aggLog.stored_before)
    /\ mem_events = upd_batch


----------------------------------------------------------------------------
(* Concurrent aggregator calls: properties *)

\* C13: with aggregator calls and readers interleaved in any order, two
\* overlapping refresh cycles included, every list a reader sees through
\* get_events and every list an aggregator call returns is the complete
\* accumulator of one refresh cycle, or the initial empty batch; it is never
\* a partial accumulator or a mixture of two cycles.
C13_NoMixedBatch ==
    LET Complete == cycles \cup {<<>>} IN
    /\ mem_events \in Complete
    /\ obs \in Complete
    /\ \A w \in Workers : workers[w].returned \in Complete

C13_Witness ==
    /\ workers["w1"].pc = "idle" /\ workers["w1"].returned # <<>>
    /\ workers["w2"].pc = "set_stamp"
    /\ Cardinality(cycles) = 2
    /\ obs # <<>> /\ obs # mem_events
    /\ mem_events # <<>>
    /\ workers["w1"].returned = mem_events
    /\ workers["w1"].returned = workers["w2"].all_items


\* the collaborator's terms as strings in lower case, in the order returned
\* (no terms when the answer is not a list)
LoweredTerms(llm) ==
    IF llm.kind \in {"list", "fenced_list", "python_list"}
    THEN [i \in 1..Len(llm.terms) |->
             Lower(IF llm.terms[i] = Null THEN <<"N","o","n","e">>
                   ELSE llm.terms[i])]
    ELSE <<>>

\* the first position of x in the sequence s (0 when absent)
FirstIndex(s, x) ==
    IF \E k \in 1..Len(s) : s[k] = x
    THEN CHOOSE k \in 1..Len(s) :
             s[k] = x /\ \A j \in 1..(k - 1) : s[j] # x
    ELSE 0

\* C14: for a non-empty query the expanded terms start with the lower-cased
\* original, followed by the collaborator's terms in lower case in the order
\* returned; no term appears twice (compared without case) and the original
\* is never repeated.
C14_ResultShape ==
    (expLog.called /\ expLog.location_query # <<>>) =>
        LET r == expLog.expanded_terms
            q == Lower(expLog.location_query)
            T == LoweredTerms(expLog.llm)
        IN  /\ Len(r) >= 1
            /\ r[1] = q
            /\ \A i, j \in 1..Len(r) : i # j => r[i] # r[j]
            /\ \A i \in 1..Len(r) : r[i] = Lower(r[i])
            /\ {r[i] : i \in 1..Len(r)} = {q} \cup {T[k] : k \in 1..Len(T)}
            /\ \A i, j \in 2..Len(r) :
                  i < j => FirstIndex(T, r[i]) < FirstIndex(T, r[j])

\* the collaborator answered a term in two spellings and the original itself
C14_Witness ==
    /\ expLog.called
    /\ expLog.location_query = <<"S","é">>
    /\ expLog.llm.kind = "list"
    /\ expLog.llm.terms = << <<"L","U","Z">>, <<"l","u","z">> >>
    /\ expLog.expanded_terms = << <<"s","é">>, <<"l","u","z">> >>

C15_WitnessEmptyQuery ==
    /\ expLog.called
    /\ expLog.location_query = <<>>
    /\ expLog.llm.kind = "list" /\ expLog.llm.terms # <<>>
    /\ expLog.expanded_terms = <<>>

\* the candidates of the ranking collaborator's answer that carry the seven
\* required keys, in the order answered
AnsweredValid(llm) ==
    IF llm.kind = "candidates"
    THEN SelectSeq(llm.candidates,
                   LAMBDA c : \A key \in {"id", "name", "location_details", "type",
                                           "date_info", "source", "details_link"} :
                                 c[key] # Missing)
    ELSE <<>>

\* C16: the events_found list the finder returns has at most max_suggestions
\* (3) entries; when the collaborator answered more valid candidates, it is
\* the first 3 of them in the collaborator's order.
C16_BoundedSuggestions ==
    (fpc = "done" /\ ~fcall.final_structured_response.raised) =>
        LET found == fcall.final_structured_response.events_found
            valid == AnsweredValid(fLog.llm)
        IN  /\ Len(found) <= FinderMaxSuggestions
            /\ Len(valid) > FinderMaxSuggestions =>
                  /\ Len(found) = FinderMaxSuggestions
                  /\ \A i \in 1..FinderMaxSuggestions :
                        [found[i] EXCEPT !.full_description =
                                             valid[i].full_description] = valid[i]

\* four valid candidates were answered and three are returned
C16_Witness ==
    /\ fpc = "done"
    /\ ~fcall.final_structured_response.raised
    /\ Len(AnsweredValid(fLog.llm)) = 4
    /\ Len(fcall.final_structured_response.events_found) = 3

\* C17: when the search service raises, or no credential is supplied, the
\* web results of the request are the empty list, the finder goes on (no
\* exception), the WebSearchMemory is left as it was, and the call of the
\* ranking collaborator is the step that follows.
C17_SearchIsolation ==
    ( /\ fpc = "searched"
      /\ \/ fLog.tavily_api_key = Null
         \/ (fLog.service_calls # <<>> /\ fLog.service.kind = "raises") ) =>
        /\ fcall.web_search_data = <<>>
        /\ fLog.adds = <<>>
        /\ search_cache = fLog.cache_before
        /\ ENABLED FindRespond

\* the service raised while the cache held an entry of an earlier request
C17_Witness ==
    /\ fpc = "searched"
    /\ fLog.service_calls # <<>>
    /\ fLog.service.kind = "raises"
    /\ search_cache # <<>>
    /\ search_cache = fLog.cache_before

\* no credential although the request names a criterion
C17_WitnessNoCredential ==
    /\ fpc = "searched"
    /\ fLog.tavily_api_key = Null
    /\ fcall.event_type # Null
    /\ fLog.service_calls = <<>>
    /\ search_cache # <<>>

\* C18: when the call of the location expansion raises or answers no usable
\* term list, the aggregator, the search step and the ranking collaborator
\* still run and the location text handed to the ranking collaborator is the
\* original location_query; when the expansion gives terms, the text is
\* those terms joined with ", ".
C18_ExpansionIsolation ==
    [][ (fpc = "searched" /\ fpc' = "done" /\ fcall.expansion # "none") =>
          /\ aggLog.called
          /\ fLog.tavily_api_key # Null => fLog.searched
          /\ fLog'.llm.kind # "none"
          /\ IF fcall.expansion \in {"call_raises", "no_term_list"}
             THEN fLog'.contextual_location = fcall.location_query
             ELSE /\ fcall.expanded_locations # <<>>
                  /\ fcall.expanded_locations[1] = Lower(fcall.location_query)
                  /\ fLog'.contextual_location =
                        Join(fcall.expanded_locations, <<",", " ">>) ]_vars

\* the expansion call raised and the ranking collaborator was handed the
\* original text
C18_Witness ==
    /\ fpc = "done"
    /\ fcall.location_query = <<"S","é">>
    /\ fLog.contextual_location = <<"S","é">>
    /\ fLog.llm.kind = "candidates"

\* the expansion gave three terms
C18_WitnessJoined ==
    /\ fpc = "done"
    /\ fLog.contextual_location =
          <<"s","é",","," ","b","e","l","a"," ","v","i","s","t","a">>

\* the number of raw records answered by the providers k.. that did not raise
RECURSIVE ReturnedCount(_, _)
ReturnedCount(outcomes, k) ==
    IF k > Len(outcomes) THEN 0
    ELSE (IF outcomes[k].raised THEN 0 ELSE Len(outcomes[k].items))
         + ReturnedCount(outcomes, k + 1)

\* C19: a malformed raw record (missing or null title, date or location)
\* never makes the normalization raise: every raw record of every provider
\* that answered is in the batch of the cycle, so no record of the same
\* provider is dropped.
C19_NormalizerNeverRaises ==
    (aggLog.called /\ aggLog.refresh) =>
        Len(aggLog.updates[1]) = ReturnedCount(aggLog.outcomes, 1)

\* the provider a batch record's id names (0 when none)
IdProvider(id) ==
    IF \E k \in 1..Len(scrapers_to_run) :
           StartsWith(id, scrapers_to_run[k] \o <<"_">>)
    THEN CHOOSE k \in 1..Len(scrapers_to_run) :
           StartsWith(id, scrapers_to_run[k] \o <<"_">>)
    ELSE 0

\* C20: in every published batch each record's id is
\* "{source_name}_{i}_{title with spaces replaced by underscores}", i being
\* the record's 0-based position in its own provider's output, and no two
\* records of the batch share an id.
C20_UniqueIds ==
    (aggLog.called /\ aggLog.refresh) =>
        LET batch == aggLog.updates[1] IN
        /\ \A m, n \in 1..Len(batch) : m # n => batch[m].id # batch[n].id
        /\ \A m, n \in 1..Len(batch) :
              m < n => IdProvider(batch[m].id) <= IdProvider(batch[n].id)
        /\ \A n \in 1..Len(batch) :
              LET k == IdProvider(batch[n].id)
                  i == Cardinality({m \in 1..(n - 1) : IdProvider(batch[m].id) = k})
              IN  /\ k # 0
                  /\ ~aggLog.outcomes[k].raised
                  /\ i < Len(aggLog.outcomes[k].items)
                  /\ LET raw == aggLog.outcomes[k].items[i + 1]
                         title == IF raw.title = Missing THEN <<>> ELSE raw.title
                     IN  batch[n].id =
                            scrapers_to_run[k] \o <<"_">> \o IntToStr(i) \o <<"_">>
                            \o [c \in 1..Len(title) |->
                                   IF title[c] = " " THEN "_" ELSE title[c]]

\* two records of one provider carry the same title, a third has none, and
\* the index restarts at 0 for the next provider
C20_Witness ==
    /\ aggLog.called /\ aggLog.refresh
    /\ Len(aggLog.updates[1]) = 5
    /\ aggLog.updates[1][1].id = FabLab \o <<"_","0","_","R","o","b","o","_","1">>
    /\ aggLog.updates[1][2].title = aggLog.updates[1][4].title
    /\ aggLog.updates[1][2].id = VisiteSaoPaulo \o <<"_","0","_","F","e","i","r","a">>
    /\ aggLog.updates[1][3].id = VisiteSaoPaulo \o <<"_","1","_">>
    /\ aggLog.updates[1][4].id = VisiteSaoPaulo \o <<"_","2","_","F","e","i","r","a">>
    /\ aggLog.updates[1][5].id = MuseusDaWikipedia \o <<"_","0","_">>
          \o <<"M","u","s","e","u","_","X">>
    /\ mem_events = aggLog.updates[1]

\* a text of the form YYYY-MM-DD: four digits, two digits, two digits
IsCanonicalDate(t) ==
    /\ Len(t) = 10
    /\ t[5] = "-" /\ t[8] = "-"
    /\ \A i \in {1, 2, 3, 4, 6, 7, 9, 10} : IsDigit(t[i])

\* year, month and day texts that name a day of the calendar
IsCalendarDay(y, m, d) ==
    /\ Len(y) = 4 /\ Len(m) = 2 /\ Len(d) = 2
    /\ AllDigits(y) /\ AllDigits(m) /\ AllDigits(d)
    /\ ToNat(y) >= 1 /\ ToNat(m) \in 1..12
    /\ ToNat(d) >= 1 /\ ToNat(d) <= DaysInMonth(ToNat(y), ToNat(m))

\* the date a text written in one of the three recognized single-date
\* formats names, as the canonical text (ok is FALSE for any other text)
RecognizedDate(t) ==
    LET w == SplitOn(t, " ")
        none == [ok |-> FALSE, canonical |-> <<>>]
        date(y, m, d) ==
            IF IsCalendarDay(y, m, d)
            THEN [ok |-> TRUE, canonical |-> y \o <<"-">> \o m \o <<"-">> \o d]
            ELSE none
    IN  IF Len(t) = 10 /\ t[3] = "/" /\ t[6] = "/"
        THEN date(SubSeq(t, 7, 10), SubSeq(t, 4, 5), SubSeq(t, 1, 2))
        ELSE IF Len(t) = 10 /\ t[5] = "-" /\ t[8] = "-"
        THEN date(SubSeq(t, 1, 4), SubSeq(t, 6, 7), SubSeq(t, 9, 10))
        ELSE IF Len(w) = 5 /\ w[2] = <<"d","e">> /\ w[4] = <<"d","e">>
                  /\ \E k \in 1..12 : MonthNames[k] = Lower(w[3])
        THEN date(w[5], Pad2(CHOOSE k \in 1..12 : MonthNames[k] = Lower(w[3])), w[1])
        ELSE none

\* the text is null, empty or "n/a" in any case
IsNoDateText(t) == t = Null \/ t = <<>> \/ Lower(t) = <<"n","/","a">>

\* the text holds a range separator
IsRangeText(t) ==
    Contains(Lower(t), <<" ","a"," ">>) \/ Contains(Lower(t), <<" ","a","t","é"," ">>)

\* C21: standardize_date_format has three outcomes: null for a null, empty
\* or "n/a" text and for a text with a range separator; the canonical
\* YYYY-MM-DD text for a text in a recognized single-date format; the text
\* itself, unchanged, for every other text.
C21_ThreeWay ==
    dateLog.called =>
        LET x == dateLog.date_str
            r == dateLog.result
        IN  /\ IsNoDateText(x) => r = Null
            /\ (~IsNoDateText(x) /\ IsRangeText(x)) => r = Null
            /\ (~IsNoDateText(x) /\ ~IsRangeText(x) /\ RecognizedDate(x).ok) =>
                  r = RecognizedDate(x).canonical
            /\ r = Null => (IsNoDateText(x) \/ IsRangeText(x))
            /\ (r # Null /\ r # x) => IsCanonicalDate(r)

\* C22: standardize_date_format is idempotent on canonical output: when the
\* result for a text is a canonical YYYY-MM-DD text, standardizing that
\* result gives the same text again.
C22_Idempotent ==
    (dateLog.called /\ dateLog.result # Null /\ IsCanonicalDate(dateLog.result)) =>
        dateLog.again = dateLog.result

\* a day-first date was turned into the canonical text, which was kept
C22_Witness ==
    /\ dateLog.called
    /\ dateLog.date_str = <<"0","5","/","0","4","/","2","0","2","3">>
    /\ dateLog.result = <<"2","0","2","3","-","0","4","-","0","5">>
    /\ dateLog.again = dateLog.result

\* C23: in a refresh cycle update_events is called exactly once, and only
\* after the last configured provider has been invoked; the steps of the
\* provider loop leave the stored batch as it was, so no partially
\* collected batch is ever stored.
C23_SinglePublish ==
    [][ /\ \A w \in Workers :
             /\ workers'[w].updates > workers[w].updates =>
                   /\ workers[w].updates = 0 /\ workers'[w].updates = 1
                   /\ workers[w].invoked = scrapers_to_run
                   /\ mem_events' = workers[w].all_items
             /\ (workers[w].pc = "fetch" /\ workers'[w] # workers[w]) =>
                   /\ mem_events' = mem_events
                   /\ mem_last_updated' = mem_last_updated
                   /\ workers'[w].updates = 0
             /\ (workers[w].pc = "return" /\ workers'[w].pc = "idle"
                     /\ workers[w].invoked # <<>>) =>
                   /\ workers[w].invoked = scrapers_to_run
                   /\ workers[w].updates = 1
        /\ mem_events' # mem_events =>
             \E w \in Workers : workers'[w].updates > workers[w].updates ]_vars

\* a call is in its provider loop, two providers invoked and records
\* collected, while the memory still holds the batch of the cycle before
C23_Witness ==
    /\ workers["w1"].pc = "fetch"
    /\ Len(workers["w1"].invoked) = 2
    /\ workers["w1"].all_items # <<>>
    /\ workers["w1"].updates = 0
    /\ mem_events # <<>>
    /\ upd_ever /\ mem_events = upd_batch
    /\ workers["w2"].pc = "idle"

\* a request argument that is neither null nor the empty text
Given(v) == v # Null /\ v # <<>>

\* C24: the finder calls the search service if and only if a search
\* credential is configured and at least one of event_type, date and
\* location_query is non-empty; otherwise the search service is not called,
\* the WebSearchMemory is unchanged and the web results handed to the
\* ranking collaborator are empty.
C24_SearchGating ==
    fpc = "searched" =>
        LET gate == /\ Given(fLog.tavily_api_key)
                    /\ \/ Given(fcall.event_type)
                       \/ Given(fcall.date)
                       \/ Given(fcall.location_query)
        IN  /\ (fLog.service_calls # <<>>) <=> gate
            /\ gate => fLog.service_calls = <<fLog.web_query>>
            /\ ~gate =>
                  /\ fLog.adds = <<>>
                  /\ search_cache = fLog.cache_before
                  /\ fcall.web_search_data = <<>>

\* a credential is configured, the request names no criterion, and the
\* cache holds an entry of an earlier request
C24_Witness ==
    /\ fpc = "searched"
    /\ fLog.tavily_api_key # Null
    /\ fcall.event_type = Null /\ fcall.date = Null /\ fcall.location_query = Null
    /\ fLog.service_calls = <<>>
    /\ search_cache # <<>>
    /\ search_cache = fLog.cache_before

\* the only criterion given is a date next to an empty event type
C24_WitnessSearched ==
    /\ fpc = "searched"
    /\ fcall.event_type = <<>> /\ fcall.date # Null /\ fcall.location_query = Null
    /\ Len(fLog.service_calls) = 1

\* a printed text without the escapes the prompt adds
Unescaped(text) == SelectSeq(text, LAMBDA c : c # "\\")

\* C25: the ranking collaborator is shown at most 75 scraped records,
\* exactly the first min(n, 75) records of the batch in batch order, and at
\* most 5 web results; records beyond the cap are not listed.
C25_PayloadCap ==
    promptLog.called =>
        LET batch == promptLog.scraped_events
            web == promptLog.web_search_results
            shown == promptLog.scraper_items
            shownWeb == promptLog.web_items
        IN  /\ Len(shown) = (IF Len(batch) < 75 THEN Len(batch) ELSE 75)
            /\ \A i \in 1..Len(shown) :
                  shown[i].n = i /\ Unescaped(shown[i].original_id) = batch[i].id
            /\ Len(shownWeb) = (IF Len(web) < 5 THEN Len(web) ELSE 5)
            /\ \A i \in 1..Len(shownWeb) :
                  shownWeb[i].n = i /\ Unescaped(shownWeb[i].original_id) = web[i].url

\* a batch of 77 records and 7 web results: 75 and 5 are listed
C25_Witness ==
    /\ promptLog.called
    /\ Len(promptLog.scraped_events) = 77
    /\ Len(promptLog.web_search_results) = 7
    /\ Len(promptLog.scraper_items) = 75
    /\ Len(promptLog.web_items) = 5
    /\ promptLog.scraper_items[75].original_id # promptLog.scraped_events[75].id
    /\ Unescaped(promptLog.scraper_items[75].original_id) =
          promptLog.scraped_events[75].id

\* C26: add_results(k, v) stores or overwrites only the entry of the literal
\* key k, stamped with the time of the add; get_results(k) removes at most
\* the entry of k and returns only the data stored under k. The entries of
\* all other keys, keys that differ from k only in case included, keep
\* their data and their timestamp.
C26_IndependentEntries ==
    [][ (qcLog' # qcLog \/ search_cache' # search_cache) =>
          LET k == qcLog'.key
              others == DOMAIN search_cache \ {k}
          IN  /\ qcLog'.op = "add" =>
                    /\ DOMAIN search_cache' = DOMAIN search_cache \cup {k}
                    /\ search_cache'[k].timestamp = now
                    /\ search_cache'[k].data = last_add'[k].data
                    /\ \A k2 \in others : search_cache'[k2] = search_cache[k2]
              /\ qcLog'.op = "get" =>
                    /\ others \subseteq DOMAIN search_cache'
                    /\ DOMAIN search_cache' \subseteq DOMAIN search_cache
                    /\ \A k2 \in others : search_cache'[k2] = search_cache[k2]
                    /\ ~qcLog'.returned.is_none =>
                          /\ k \in DOMAIN search_cache
                          /\ qcLog'.returned.data = search_cache[k].data ]_vars

\* two keys that differ only in case hold different data stamped at
\* different times
C26_Witness ==
    /\ qcLog.op = "add" /\ qcLog.key = <<"Q","1">>
    /\ <<"q","1">> \in DOMAIN search_cache
    /\ <<"Q","1">> \in DOMAIN search_cache
    /\ search_cache[<<"Q","1">>].timestamp = now
    /\ search_cache[<<"q","1">>].timestamp < now
    /\ search_cache[<<"q","1">>].data # search_cache[<<"Q","1">>].data

\* an expired entry was removed by a read while the other entries stayed
C26_WitnessGet ==
    /\ qcLog.op = "get" /\ qcLog.returned.is_none
    /\ qcLog.key \in DOMAIN last_add
    /\ qcLog.key \notin DOMAIN search_cache
    /\ Cardinality(DOMAIN search_cache) = 2

\* an update_events call has assigned self._events and has not yet assigned
\* self._last_updated: the memory holds the new batch and the old timestamp
BetweenAssignments == \E w \in Workers : workers[w].pc = "set_stamp"

\* C27: the batch and the timestamp are replaced together: whenever a call
\* evaluates should_refresh, which reads both, the memory does not hold the
\* new batch paired with the old timestamp.
C27_ReplacedTogether ==
    [][ (\E r \in Workers : workers[r].pc = "idle" /\ workers'[r].pc # "idle") =>
          ~BetweenAssignments ]_vars

\* C28: there is no refresh-in-progress guard: a call that finds
\* should_refresh true starts its own provider loop whatever the other
\* calls are doing, invokes every provider and performs its own update, so
\* two calls that both evaluate should_refresh before either has updated
\* invoke every provider twice.
C28_Stampede ==
    [][ \A w \in Workers :
          /\ (workers[w].pc = "idle" /\ workers'[w].pc # "idle" /\ should_refresh) =>
                workers'[w].pc = "fetch" /\ workers'[w].invoked = <<>>
          /\ workers'[w].pc = "set_events" =>
                workers'[w].invoked = scrapers_to_run /\ workers'[w].updates = 0
          /\ workers'[w].pc = "set_stamp" =>
                /\ workers'[w].invoked = scrapers_to_run
                /\ workers'[w].updates = 1 ]_vars

\* both calls have invoked every provider before any update was made
C28_Witness ==
    /\ ~upd_ever
    /\ \A w \in Workers :
          /\ workers[w].pc = "set_events"
          /\ workers[w].invoked = scrapers_to_run
    /\ workers["w1"].all_items # workers["w2"].all_items
    /\ ncycles = 2

\* both calls have performed their own update
C28_WitnessUpdates ==
    /\ \A w \in Workers : workers[w].pc = "return" /\ workers[w].updates = 1
    /\ ncycles = 2

\* C29: a refresh cycle in which every provider raises or returns no
\* records still calls update_events, with the empty accumulator: the batch
\* stored before is replaced by the empty batch, the timestamp is renewed,
\* and the call returns the empty list.
C29_EmptyRefreshPublishes ==
    ( /\ aggLog.called /\ aggLog.refresh
      /\ \A k \in 1..Len(aggLog.outcomes) :
            aggLog.outcomes[k].raised \/ aggLog.outcomes[k].items = <<>> ) =>
        /\ aggLog.updates = << <<>> >>
        /\ mem_events = <<>>
        /\ mem_last_updated = aggLog.at
        /\ aggLog.returned = <<>>

\* a non-empty batch was stored, expired, and the refresh collected nothing
C29_Witness ==
    /\ aggLog.called /\ aggLog.refresh
    /\ aggLog.stored_before # <<>>
    /\ \A k \in 1..Len(aggLog.outcomes) :
          aggLog.outcomes[k].raised \/ aggLog.outcomes[k].items = <<>>
    /\ \E k \in 1..Len(aggLog.outcomes) : ~aggLog.outcomes[k].raised
    /\ mem_events = <<>>
    /\ aggLog.returned = <<>>

\* the stored batch is non-empty and not older than the refresh interval
NoRefreshDue == mem_events # <<>> /\ now - mem_last_updated <= RefreshInterval

\* C30: a finder call made while no refresh is due leaves the ScraperMemory
\* as it was: same batch, same fields of every record, same timestamp. The
\* reconciliation writes full_description onto the candidates the ranking
\* collaborator answered only: the stored records and the cached web
\* results are unchanged, and a returned candidate differs from the
\* answered one in full_description alone.
C30_CachedRecordsImmutable ==
    [][ fpc' # fpc =>
          /\ (fpc # "expanded" \/ NoRefreshDue) =>
                /\ mem_events' = mem_events
                /\ mem_last_updated' = mem_last_updated
          /\ (fpc = "searched" /\ ~fcall'.final_structured_response.raised) =>
                LET found == fcall'.final_structured_response.events_found
                    ranked == fLog'.ranked.events_found
                IN  /\ search_cache' = search_cache
                    /\ Len(found) = Len(ranked)
                    /\ \A i \in 1..Len(found) :
                          [found[i] EXCEPT !.full_description =
                                               ranked[i].full_description] = ranked[i]
        ]_vars

\* a call served from the memory returned a candidate whose description was
\* read from a stored record
C30_Witness ==
    /\ fpc = "done"
    /\ aggLog.called /\ ~aggLog.refresh
    /\ mem_events # <<>> /\ mem_events = aggLog.stored_before
    /\ ~fcall.final_structured_response.raised
    /\ \E i \in 1..Len(fcall.final_structured_response.events_found) :
          \E j \in 1..Len(mem_events) :
             /\ fcall.final_structured_response.events_found[i].source = Scraper
             /\ fcall.final_structured_response.events_found[i].id = mem_events[j].id
             /\ fcall.final_structured_response.events_found[i].full_description
                   = mem_events[j].description

====
